---- MODULE Spec2Model ----
(***************************************************************************)
(* A model of the rating inference engine of plex-rating-utils             *)
(* (src/rating_inference.py): the StateStore, the prior estimation, the    *)
(* process_layer passes (Album-UP, Artist-UP, Album-DOWN, Track-DOWN), the *)
(* twin pass and run_processing_phases, over a small music library.        *)
(*                                                                         *)
(* Ratings are Python floats in the source.  They are modelled as exact    *)
(* rationals <<n, d>> (d > 0, lowest terms), so that every formula of the  *)
(* source is computed as written and two values are equal exactly when     *)
(* the tuples are equal.                                                   *)
(***************************************************************************)
EXTENDS Integers, Sequences, FiniteSets, TLC

----------------------------------------------------------------------------
(* Rational arithmetic (the float arithmetic of the source).               *)

RECURSIVE GCD(_, _)
GCD(a, b) == IF b = 0 THEN a ELSE GCD(b, a % b)

IAbs(i) == IF i < 0 THEN -i ELSE i

Norm(n, d) ==
    LET s == IF d < 0 THEN -1 ELSE 1
        g == GCD(IAbs(n), IAbs(d))
    IN  <<(s * n) \div g, (s * d) \div g>>

R(n, d) == Norm(n, d)
Zero == <<0, 1>>

RAdd(a, b) == Norm(a[1] * b[2] + b[1] * a[2], a[2] * b[2])
RSub(a, b) == Norm(a[1] * b[2] - b[1] * a[2], a[2] * b[2])
RMul(a, b) == Norm(a[1] * b[1], a[2] * b[2])
RDiv(a, b) == Norm(a[1] * b[2], a[2] * b[1])
RLt(a, b) == a[1] * b[2] < b[1] * a[2]
RLe(a, b) == a[1] * b[2] <= b[1] * a[2]
RAbs(a) == <<IAbs(a[1]), a[2]>>
RMin(a, b) == IF RLt(b, a) THEN b ELSE a

RECURSIVE RSum(_)
RSum(s) == IF s = <<>> THEN Zero ELSE RAdd(Head(s), RSum(Tail(s)))

\* The elements of sequence s that satisfy Test, in order (a list comprehension).
RECURSIVE SelectKeys(_, _)
SelectKeys(s, keep) ==
    IF s = <<>> THEN <<>>
    ELSE IF Head(s) \in keep THEN <<Head(s)>> \o SelectKeys(Tail(s), keep)
         ELSE SelectKeys(Tail(s), keep)

----------------------------------------------------------------------------
(* The music library (the catalog the engine reads through plexapi).       *)

Artists == {"R1", "R2"}
Albums == {"A1", "A2"}
Tracks == {"T1", "T2", "T3", "T4"}
Items == Artists \cup Albums \cup Tracks

\* item.artist() of an album, item.album() of a track
ParentOf(k) ==
    CASE k = "A1" -> "R1"
      [] k = "A2" -> "R2"
      [] k \in {"T1", "T2"} -> "A1"
      [] k \in {"T3", "T4"} -> "A2"
      [] OTHER -> "none"

\* What the server holds about the items besides ratings and moods: the
\* tracks of the library (T4 may be missing), the artists' titles ("" when unset), the tracks'
\* durations (ms, 0 when unset), titles (as lower-cased words) and original
\* artists ("" when unset), the albums that are live albums, the albums'
\* years and the library's identity (library.uuid).
BaseLibrary ==
    [ tracks |-> Tracks \ {"T4"},
      artist_title |-> [a \in Artists |-> IF a = "R1" THEN "abba" ELSE "best of"],
      duration |-> [t \in Tracks |-> CASE t = "T1" -> 200000 [] t = "T2" -> 30000
                                        [] t = "T3" -> 203000 [] OTHER -> 180000],
      title |-> [t \in Tracks |-> CASE t = "T2" -> {"intro"} [] t = "T4" -> {"tune"}
                                     [] OTHER -> {"song"}],
      original |-> [t \in Tracks |-> IF t = "T3" THEN "abba" ELSE ""],
      live |-> [a \in Albums |-> FALSE],
      year |-> [a \in Albums |-> 1],
      uuid |-> "lib-A" ]

VARIABLE lib         \* the library, as above

\* item.tracks() of an album, item.albums() of an artist, in library order
ChildrenOf(k) ==
    CASE k = "R1" -> <<"A1">>
      [] k = "R2" -> <<"A2">>
      [] k = "A1" -> <<"T1", "T2">>
      [] k = "A2" -> IF "T4" \in lib.tracks THEN <<"T3", "T4">> ELSE <<"T3">>
      [] OTHER -> <<>>

\* The first letter of an artist's sort name, as its position in the
\* alphabet (0 stands for chr(0), the floor of an empty start letter); an
\* artist with no title is shown as "Unknown".
ArtistLetter(k) ==
    CASE lib.artist_title[k] = "" -> 21
      [] lib.artist_title[k] = "abba" -> 1
      [] OTHER -> 2

\* item.rating: the static critic score of an item (0: none)
CriticRating(k) == IF k = "A2" THEN R(8, 1) ELSE Zero

\* track.duration in milliseconds (0: none)
DurationMs(k) == IF k \in Tracks THEN lib.duration[k] ELSE 0

\* track.title as its lower-cased words
TitleWords(k) == IF k \in Tracks THEN lib.title[k] ELSE {}

\* track.originalTitle ("" when unset) and track.grandparentTitle
OriginalTitle(k) == lib.original[k]
GrandparentTitle(k) == lib.artist_title[ParentOf(ParentOf(k))]

\* whether a title or its album title holds one of the characters ()[]
HasParentheses(k) == FALSE

\* 'Live' in track.album().subformats
IsLiveAlbum(k) == lib.live[ParentOf(k)]

----------------------------------------------------------------------------
(* Configuration (config.json).                                            *)

INFERRED_TAG == "Rating_Inferred"
TWIN_TAG == "Twin"

\* The default configuration get_config writes, switched to a live run.
BaseConfig ==
    [ DRY_RUN |-> FALSE,
      INFERRED_TAG |-> INFERRED_TAG,
      CONFIDENCE_C |-> R(3, 1),
      BIAS_CRITIC |-> R(3, 2),
      WEIGHT_CRITIC |-> R(3, 1),
      WEIGHT_GLOBAL |-> R(1, 1),
      DYNAMIC_PRECISION |-> TRUE,
      COOLDOWN_BATCH |-> 25,
      ALBUM_INHERITANCE_GRAVITY |-> R(1, 5),
      TRACK_INHERITANCE_GRAVITY |-> R(3, 10),
      TWIN_ENABLED |-> TRUE,
      TWIN_TAG |-> TWIN_TAG,
      DURATION_TOLERANCE_SEC |-> 5,
      EXCLUDE_KEYWORDS |-> {"live", "demo", "reprise", "instrumental", "commentary",
                            "acoustic", "remix"},
      EXCLUDE_PARENTHESES |-> TRUE,
      EXCLUDE_LIVE_ALBUMS |-> TRUE,
      UPWARD_ENABLED |-> TRUE,
      MIN_DURATION_SEC |-> 60,
      KEYWORDS |-> {"intro", "outro", "interview", "skit", "applause", "commentary"} ]

\* The configurations the model runs under: the base one, and the base one
\* with one option changed.
ConfigChoices ==
    { BaseConfig,
      [BaseConfig EXCEPT !.DRY_RUN = TRUE],
      [BaseConfig EXCEPT !.INFERRED_TAG = ""],
      [BaseConfig EXCEPT !.CONFIDENCE_C = Zero],
      [BaseConfig EXCEPT !.UPWARD_ENABLED = FALSE],
      [BaseConfig EXCEPT !.TWIN_ENABLED = FALSE],
      [BaseConfig EXCEPT !.COOLDOWN_BATCH = 2] }

\* The manual ratings an item may carry when the engine first sees it
\* (0: unrated), on the 0-10 scale.
RatingChoices(k) ==
    CASE k = "T1" -> {Zero, R(6, 1)}
      [] k = "T2" -> {Zero, R(8, 1)}
      [] k = "T3" -> {Zero, R(4, 1)}
      [] k = "A2" -> {Zero, R(8, 1)}
      [] k = "R1" -> {Zero, R(8, 1)}

\* The values a user may set on an item the engine has rated (0: cleared).
ExternalChoices == {Zero, R(10, 1)}

\* How many runs the operator starts, and how many ratings the user changes
\* between runs.
MaxRuns == 2
MaxExternal == 1

----------------------------------------------------------------------------
VARIABLES
    config,          \* the loaded config.json
    userRating,      \* item.userRating of every item (0: unrated)
    moods,           \* the mood tags of every item
    state,           \* the in-memory StateStore: key -> [r, t]
    disk,            \* plex_state.json: [exists, ratings]
    pc,              \* where the program is
    choice,          \* the menu option of the run (0..5)
    start_char,      \* the start letter of the run (0: none)
    phase,           \* index of the pass in the run's workload
    items,           \* the sorted items of the pass in progress
    idx,             \* index in items of the next item
    global_mean,     \* the prior of the run
    updated_count, skipped_count, hijacked_count, batch_counter,
    current_section, \* the sort bucket in progress (0: None)
    total_updated,   \* run_processing_phases' tally
    clusters,        \* the twin clusters of the twin pass in progress
    runs,            \* number of runs started
    externals,       \* number of ratings the user has changed
    writes,          \* number of item.rate calls of the run in progress
    last,            \* what the last step did (history)
    burst,           \* rating writes of the pass since its last cool-down pause (history)
    cancel           \* the interrupts of the pass, and the checkpoint of a cancelled run

vars == <<config, userRating, moods, state, disk, pc, choice, start_char, phase,
          items, idx, global_mean, updated_count, skipped_count, hijacked_count,
          batch_counter, current_section, total_updated, clusters, runs,
          externals, writes, last, lib, burst, cancel>>

layerVars == <<phase, items, idx, updated_count, skipped_count, hijacked_count,
               batch_counter, current_section>>

----------------------------------------------------------------------------
(* The StateStore.                                                         *)

NoLast == [op |-> "none"]

\* No interrupt so far: the items the pass in progress has processed and
\* those it has abandoned at an interrupt, the checkpoint a cancelled run
\* reported (option and letter), whether the run was started again from it,
\* the items the cancelled run had processed and the start letter it had;
\* the ratings the catalog held before the first run, what a pass that
\* was stopped would have left had it run on, the state file the program
\* found when it started, and the items whose rating a pass has written
\* without recording it
NoCancel ==
    [ processed |-> {}, abandoned |-> {}, reported |-> FALSE, opt |-> 0, letter |-> 0,
      resumed |-> FALSE, before |-> {}, start |-> 0, origin |-> << >>,
      expected |-> [stopped |-> FALSE], file |-> [exists |-> FALSE],
      unrecorded |-> {} ]

\* del state[key]
DelState(st, key) == [k \in DOMAIN st \ {key} |-> st[k]]

\* state[key] = {'r': r, 't': t}
PutState(st, key, r, t) ==
    [k \in DOMAIN st \cup {key} |-> IF k = key THEN [r |-> r, t |-> t] ELSE st[k]]

APP_VERSION == "1.4.0"

\* The versioned document of the state file: the program's version, the
\* identity of the library and the ratings
Versioned(uuid, version, ratings) ==
    [exists |-> TRUE, versioned |-> TRUE, version |-> version, library_uuid |-> uuid,
     ratings |-> ratings]

\* A save that forgets the dry run
save_state_Always(dk, st) == Versioned(lib.uuid, APP_VERSION, st)

\* save_state: nothing in a dry run; else the file holds the document
\* (active_library_uuid is the uuid of the library main has connected to)
save_state(dk, st) ==
    IF config.DRY_RUN THEN dk ELSE Versioned(lib.uuid, APP_VERSION, st)

\* The epsilon steps of round(0.02 * (log10(n) - 2), 3): EpsilonSteps[i] is
\* the least n whose value is (20 + i) / 1000; exact for n below 1188503.
EpsilonSteps ==
    << 1060, 1189, 1334, 1497, 1679, 1884, 2114, 2372, 2661, 2986, 3350, 3759,
       4217, 4732, 5309, 5957, 6684, 7499, 8414, 9441, 10593, 11886, 13336,
       14963, 16789, 18837, 21135, 23714, 26608, 29854, 33497, 37584, 42170,
       47316, 53089, 59567, 66835, 74990, 84140, 94407, 105926, 118851, 133353,
       149624, 167881, 188365, 211349, 237138, 266073, 298539, 334966, 375838,
       421697, 473152, 530885, 595663, 668344, 749895, 841396, 944061, 1059254 >>

\* An epsilon that takes no notice of DYNAMIC_PRECISION
calculate_dynamic_epsilon_AlwaysDynamic(item_count) ==
    IF item_count < 1000 THEN R(2, 100)
    ELSE R(20 + Cardinality({i \in DOMAIN EpsilonSteps : EpsilonSteps[i] <= item_count}), 1000)

calculate_dynamic_epsilon(item_count) ==
    IF ~config.DYNAMIC_PRECISION THEN R(2, 100)
    ELSE IF item_count < 1000 THEN R(2, 100)
    ELSE R(20 + Cardinality({i \in DOMAIN EpsilonSteps : EpsilonSteps[i] <= item_count}), 1000)

\* is_excluded_from_averages(track, config['UPWARD_EXCLUSION_RULES'])
is_excluded_from_averages(k) ==
    IF ~config.UPWARD_ENABLED THEN FALSE
    ELSE IF k \notin Tracks THEN FALSE
    ELSE IF DurationMs(k) # 0 /\ (DurationMs(k) \div 1000) < config.MIN_DURATION_SEC THEN TRUE
    ELSE IF config.KEYWORDS = {} \/ TitleWords(k) = {} THEN FALSE
    ELSE TitleWords(k) \cap config.KEYWORDS # {}

\* The noise floor of the hijack test and of the update rule
NoiseFloor == R(1, 100)

\* abs(state[key]['r'] - current_val) > 0.01
Differs(r, current_val) == RLt(NoiseFloor, RAbs(RSub(r, current_val)))

\* music.searchTracks() and the other searches, in library order
TrackOrder ==
    IF "T4" \in lib.tracks THEN <<"T1", "T2", "T3", "T4">> ELSE <<"T1", "T2", "T3">>
AlbumOrder == <<"A1", "A2">>
ArtistOrder == <<"R1", "R2">>

\* A prior that forgets the second half of the manual test
ManualTracks_Unrecorded(st, rating) ==
    { t \in Tracks : /\ RLt(Zero, rating[t])
                     /\ ~is_excluded_from_averages(t)
                     /\ t \notin DOMAIN st }

\* The tracks get_library_prior counts as manual
ManualTracks(st, rating) ==
    { t \in Tracks : /\ RLt(Zero, rating[t])
                     /\ ~is_excluded_from_averages(t)
                     /\ (t \notin DOMAIN st \/ Differs(st[t].r, rating[t])) }

\* A prior that deletes a stale record without counting its rating
get_library_prior_DropsStale(st, rating) ==
    LET manual == SelectKeys(TrackOrder, ManualTracks(st, rating) \ DOMAIN st)
        manual_ratings == [i \in DOMAIN manual |-> rating[manual[i]]]
    IN  [ prior |-> IF manual # <<>>
                    THEN RDiv(RSum(manual_ratings), R(Len(manual), 1))
                    ELSE R(6, 1),
          n |-> Len(manual),
          state |-> [k \in DOMAIN st \ ManualTracks(st, rating) |-> st[k]] ]

\* get_library_prior: the prior, the number of manual ratings and the
\* StateStore it leaves (the stale records deleted)
get_library_prior(st, rating) ==
    LET manual == SelectKeys(TrackOrder, ManualTracks(st, rating))
        manual_ratings == [i \in DOMAIN manual |-> rating[manual[i]]]
    IN  [ prior |-> IF manual # <<>>
                    THEN RDiv(RSum(manual_ratings), R(Len(manual), 1))
                    ELSE R(6, 1),
          n |-> Len(manual),
          state |-> [k \in DOMAIN st \ ManualTracks(st, rating) |-> st[k]] ]

----------------------------------------------------------------------------
(* process_layer: the computation for one item.                            *)

None == [some |-> FALSE]
Some(v) == [some |-> TRUE, v |-> v]

\* Python truthiness of a float that may be None
Truthy(o) == o.some /\ o.v # Zero

\* The passes of run_processing_phases, and the workload of a menu option
Phases == << [label |-> "Album", direction |-> "UP"],
             [label |-> "Artist", direction |-> "UP"],
             [label |-> "Album", direction |-> "DOWN"],
             [label |-> "Track", direction |-> "DOWN"] >>

Workload(ch) == IF ch = 0 THEN Phases ELSE <<Phases[ch]>>

\* fetch_func() followed by items.sort(...): albums by (artist title, title),
\* artists by title, tracks by (artist title, album title, title)
SortedItems(label) ==
    CASE label = "Album" -> <<"A1", "A2">>
      [] label = "Artist" -> <<"R1", "R2">>
      [] label = "Track" -> IF "T4" \in lib.tracks THEN <<"T2", "T1", "T3", "T4">>
                            ELSE <<"T2", "T1", "T3">>

\* first_char: the first letter of the item's sort name (its artist's title)
first_char(label, k) ==
    CASE label = "Album" -> ArtistLetter(ParentOf(k))
      [] label = "Artist" -> ArtistLetter(k)
      [] label = "Track" -> ArtistLetter(ParentOf(ParentOf(k)))

\* c_val: CONFIDENCE_C, reset to 3.0 when it is not positive
c_val == IF RLe(config.CONFIDENCE_C, Zero) THEN R(3, 1) ELSE config.CONFIDENCE_C

\* gravity with the two options swapped
gravity_Swapped(label) ==
    CASE label = "Album" -> config.TRACK_INHERITANCE_GRAVITY
      [] label = "Track" -> config.ALBUM_INHERITANCE_GRAVITY
      [] OTHER -> Zero

gravity(label) ==
    CASE label = "Album" -> config.ALBUM_INHERITANCE_GRAVITY
      [] label = "Track" -> config.TRACK_INHERITANCE_GRAVITY
      [] OTHER -> Zero

\* manual_children without the StateRecord filter: every rated child counts
manual_children_AllRated(k, st, rating) ==
    SelectKeys(ChildrenOf(k), {c \in Items : RLt(Zero, rating[c])})

\* manual_children: the rated children that have no StateRecord
manual_children(k, st, rating) ==
    SelectKeys(ChildrenOf(k), {c \in Items : RLt(Zero, rating[c]) /\ c \notin DOMAIN st})

\* contributing_children: the manual children the exclusion rules keep, or
\* all of them when the rules remove every one
contributing_children(k, st, rating) ==
    LET manual == manual_children(k, st, rating)
        kept == SelectKeys(manual, {c \in Items : ~is_excluded_from_averages(c)})
    IN  IF config.UPWARD_ENABLED
        THEN (IF kept = <<>> /\ manual # <<>> THEN manual ELSE kept)
        ELSE manual

\* c_rating: the critic score, biased and normalised, "clamped"
c_rating(k) ==
    IF RLt(Zero, CriticRating(k))
    THEN Some(RMin(Zero, RMul(RDiv(RAdd(CriticRating(k), config.BIAS_CRITIC),
                                   RAdd(R(10, 1), config.BIAS_CRITIC)),
                              R(10, 1))))
    ELSE None

\* p_i: the informed prior
informed_prior(k, gm) ==
    IF Truthy(c_rating(k)) /\ RLt(Zero, config.WEIGHT_CRITIC)
    THEN RDiv(RAdd(RMul(gm, config.WEIGHT_GLOBAL), RMul(c_rating(k).v, config.WEIGHT_CRITIC)),
              RAdd(config.WEIGHT_GLOBAL, config.WEIGHT_CRITIC))
    ELSE gm

\* The blend with the prior counted once instead of c_val times
bayesian_blend_Unweighted(p_i, sum_manual, n_manual) ==
    RDiv(RAdd(p_i, sum_manual), RAdd(c_val, R(n_manual, 1)))

\* The Bayesian blend ((c_val * p_i) + sum_manual) / (c_val + n_manual)
bayesian_blend(p_i, sum_manual, n_manual) ==
    RDiv(RAdd(RMul(c_val, p_i), sum_manual), RAdd(c_val, R(n_manual, 1)))

\* inferred_rating of an upward pass
up_inferred(k, st, rating, gm) ==
    LET contributing == contributing_children(k, st, rating)
        sum_manual == RSum([i \in DOMAIN contributing |-> rating[contributing[i]]])
    IN  Some(bayesian_blend(informed_prior(k, gm), sum_manual, Len(contributing)))

\* inferred_rating of a downward pass
down_inferred(label, k, st, rating, gm) ==
    LET parent == ParentOf(k)
    IN  IF parent \in Items /\ RLt(Zero, rating[parent])
        THEN IF parent \in DOMAIN st
             THEN Some(rating[parent])
             ELSE Some(RAdd(RMul(rating[parent], RSub(R(1, 1), gravity(label))),
                            RMul(gm, gravity(label))))
        ELSE None

inferred_rating(label, direction, k, st, rating, gm) ==
    IF direction = "UP" THEN up_inferred(k, st, rating, gm)
    ELSE down_inferred(label, k, st, rating, gm)

\* Case C: a StateRecord whose rating is not the observed one
IsHijack(k, st, rating) == k \in DOMAIN st /\ Differs(st[k].r, rating[k])

\* Case A left out: a rated item with no StateRecord is computed like any other
IsManualNew_Never(k, st, rating) == FALSE

\* Case A: no StateRecord and a rating
IsManualNew(k, st, rating) == k \notin DOMAIN st /\ RLt(Zero, rating[k])

\* Case D: a StateRecord, and the observed rating within epsilon of the inferred
IsDrift(k, st, delta, epsilon) == k \in DOMAIN st /\ RLt(delta, epsilon)

\* Case B only: an item that has a StateRecord is never rewritten
IsUpdate_NewOnly(k, st, delta) == k \notin DOMAIN st

\* Case B/E: no StateRecord, or a change of at least the noise floor
IsUpdate(k, st, delta) == k \notin DOMAIN st \/ RLe(NoiseFloor, delta)

\* item.addMood(tag) when a tag is configured and the item does not carry it
AddMood(md, k, tag) == IF tag # "" THEN [md EXCEPT ![k] = @ \cup {tag}] ELSE md

\* removeMood left out
RemoveMood_Kept(md, k, tag) == md

\* item.removeMood(tag) when a tag is configured
RemoveMood(md, k, tag) == IF tag # "" THEN [md EXCEPT ![k] = @ \ {tag}] ELSE md

\* The body of process_layer's loop for item k: the case it falls in and
\* what it leaves.  "cont" tells that the body ended in a continue (the
\* periodic save and the cool-down are skipped).
LayerStep(label, direction, k, st, rating, md, gm, floor_char, epsilon) ==
    LET same == [state |-> st, rating |-> rating, moods |-> md, inferred |-> None,
                 wrote |-> FALSE, cont |-> TRUE]
    IN  IF first_char(label, k) < floor_char THEN [same EXCEPT !.cont = TRUE] @@ [case |-> "skipped"]
        ELSE IF IsHijack(k, st, rating)
        THEN (IF config.DRY_RUN THEN same
              ELSE [same EXCEPT !.state = DelState(st, k),
                                !.moods = RemoveMood(md, k, config.INFERRED_TAG)])
             @@ [case |-> "hijack"]
        ELSE IF IsManualNew(k, st, rating) THEN same @@ [case |-> "manual"]
        ELSE CHOOSE out \in
               { IF ~Truthy(inf) THEN [same EXCEPT !.cont = FALSE] @@ [case |-> "noop"]
                 ELSE IF IsDrift(k, st, RAbs(RSub(rating[k], inf.v)), epsilon)
                 THEN [same EXCEPT !.inferred = inf] @@ [case |-> "drift"]
                 ELSE IF IsUpdate(k, st, RAbs(RSub(rating[k], inf.v)))
                 THEN (IF config.DRY_RUN THEN [same EXCEPT !.inferred = inf, !.cont = FALSE]
                       ELSE [state |-> PutState(st, k, inf.v, 0),
                             rating |-> [rating EXCEPT ![k] = inf.v],
                             moods |-> AddMood(md, k, config.INFERRED_TAG),
                             inferred |-> inf, wrote |-> TRUE, cont |-> FALSE])
                      @@ [case |-> "update"]
                 ELSE [same EXCEPT !.inferred = inf, !.cont = FALSE] @@ [case |-> "neither"]
                 : inf \in {inferred_rating(label, direction, k, st, rating, gm)} } : TRUE

----------------------------------------------------------------------------
(* Twin logic: build_twin_clusters and process_twins.                      *)

\* _clean_artist: the original artist, else the album artist; "" (None) for
\* an unresolvable 'various artists'
clean_artist(k) ==
    IF OriginalTitle(k) = "" /\ GrandparentTitle(k) = "various artists" THEN ""
    ELSE IF OriginalTitle(k) # "" THEN OriginalTitle(k)
    ELSE GrandparentTitle(k)

\* _clean_title: the lower-cased title; {} (None) when it holds a bracket or
\* an excluded keyword as a whole word
clean_title(k) ==
    LET all_exclude_keywords ==
            config.EXCLUDE_KEYWORDS \cup
            (IF config.UPWARD_ENABLED THEN config.KEYWORDS ELSE {})
    IN  IF TitleWords(k) = {} THEN {}
        ELSE IF config.EXCLUDE_PARENTHESES /\ HasParentheses(k) THEN {}
        ELSE IF TitleWords(k) \cap all_exclude_keywords # {} THEN {}
        ELSE TitleWords(k)

twin_key(k) == <<clean_artist(k), clean_title(k)>>

\* The rated tracks that get a twin key, in search order
ScannedTracks(rating) ==
    SelectKeys(TrackOrder, {t \in Tracks : /\ RLt(Zero, rating[t])
                                           /\ clean_artist(t) # ""
                                           /\ clean_title(t) # {}})

\* The keys of the registry dict, in insertion order
RECURSIVE RegistryKeys(_, _)
RegistryKeys(s, seen) ==
    IF s = <<>> THEN <<>>
    ELSE IF twin_key(Head(s)) \in seen THEN RegistryKeys(Tail(s), seen)
         ELSE <<twin_key(Head(s))>> \o RegistryKeys(Tail(s), seen \cup {twin_key(Head(s))})

\* track_data of a scanned track
track_data(k, st, rating) ==
    [ ratingKey |-> k,
      rating |-> rating[k],
      is_manual |-> k \notin DOMAIN st,
      duration |-> IF DurationMs(k) # 0 THEN DurationMs(k) \div 1000 ELSE 0 ]

\* sorted(list of integers)
RECURSIVE Insert(_, _)
Insert(x, s) ==
    IF s = <<>> THEN <<x>>
    ELSE IF x <= Head(s) THEN <<x>> \o s
         ELSE <<Head(s)>> \o Insert(x, Tail(s))

RECURSIVE SortInts(_)
SortInts(s) == IF s = <<>> THEN <<>> ELSE Insert(Head(s), SortInts(Tail(s)))

\* Twice statistics.median of a non-empty list of integers
Median2(s) ==
    LET o == SortInts(s)
        n == Len(o)
    IN  IF n % 2 = 1 THEN 2 * o[(n + 1) \div 2] ELSE o[n \div 2] + o[n \div 2 + 1]

\* The elements of a sequence of track_data whose key is in keep
RECURSIVE SelectData(_, _)
SelectData(s, keep) ==
    IF s = <<>> THEN <<>>
    ELSE IF Head(s).ratingKey \in keep THEN <<Head(s)>> \o SelectData(Tail(s), keep)
         ELSE SelectData(Tail(s), keep)

\* A verification that keeps the live members when fewer than two others remain
verify_cluster_LiveIfTwoRemain(cluster) ==
    LET durations == [i \in DOMAIN cluster |-> cluster[i].duration]
        median2 == Median2(durations)
        within == {cluster[i].ratingKey : i \in {j \in DOMAIN cluster :
                      IAbs(2 * cluster[j].duration - median2) <= 2 * config.DURATION_TOLERANCE_SEC}}
        filtered_cluster == SelectData(cluster, within)
        non_live_cluster == SelectData(filtered_cluster, {k \in within : ~IsLiveAlbum(k)})
        final == IF config.EXCLUDE_LIVE_ALBUMS /\ Len(non_live_cluster) >= 2
                 THEN non_live_cluster ELSE filtered_cluster
    IN  IF \E i \in DOMAIN cluster : cluster[i].duration <= 0 THEN <<>>
        ELSE IF Len(final) >= 2 THEN final ELSE <<>>

\* A verification without the duration filter
verify_cluster_NoTolerance(cluster) ==
    LET filtered_cluster == cluster
        non_live_cluster ==
            SelectData(cluster, {cluster[i].ratingKey : i \in {j \in DOMAIN cluster :
                                    ~IsLiveAlbum(cluster[j].ratingKey)}})
        final == IF config.EXCLUDE_LIVE_ALBUMS /\ Len(filtered_cluster) >= 2
                 THEN non_live_cluster ELSE filtered_cluster
    IN  IF \E i \in DOMAIN cluster : cluster[i].duration <= 0 THEN <<>>
        ELSE IF Len(final) >= 2 THEN final ELSE <<>>

\* The verification of one registry cluster: <<>> when it is dropped
verify_cluster(cluster) ==
    LET durations == [i \in DOMAIN cluster |-> cluster[i].duration]
        median2 == Median2(durations)
        within == {cluster[i].ratingKey : i \in {j \in DOMAIN cluster :
                      IAbs(2 * cluster[j].duration - median2) <= 2 * config.DURATION_TOLERANCE_SEC}}
        filtered_cluster == SelectData(cluster, within)
        non_live_cluster == SelectData(filtered_cluster, {k \in within : ~IsLiveAlbum(k)})
        final == IF config.EXCLUDE_LIVE_ALBUMS /\ Len(filtered_cluster) >= 2
                 THEN non_live_cluster ELSE filtered_cluster
    IN  IF \E i \in DOMAIN cluster : cluster[i].duration <= 0 THEN <<>>
        ELSE IF Len(final) >= 2 THEN final ELSE <<>>

RECURSIVE VerifyAll(_, _, _, _)
VerifyAll(keys, scanned, st, rating) ==
    IF keys = <<>> THEN <<>>
    ELSE LET members == SelectKeys(scanned, {t \in Tracks : twin_key(t) = Head(keys)})
             cluster == [i \in DOMAIN members |-> track_data(members[i], st, rating)]
             final == IF Len(cluster) >= 2 THEN verify_cluster(cluster) ELSE <<>>
         IN  (IF final # <<>> THEN <<final>> ELSE <<>>)
             \o VerifyAll(Tail(keys), scanned, st, rating)

build_twin_clusters(st, rating) ==
    LET scanned == ScannedTracks(rating)
    IN  VerifyAll(RegistryKeys(scanned, {}), scanned, st, rating)

\* statistics.mean of the ratings of a list of track_data
MeanRating(s) == RDiv(RSum([i \in DOMAIN s |-> s[i].rating]), R(Len(s), 1))

\* The members of a cluster that are manual anchors
ManualAnchors(cluster) ==
    SelectData(cluster, {cluster[i].ratingKey : i \in {j \in DOMAIN cluster : cluster[j].is_manual}})

\* A target that averages all the members, anchors or not
twin_target_AllMembers(cluster) ==
    [target_rating |-> MeanRating(cluster),
     new_twin_flag |-> IF ManualAnchors(cluster) # <<>> THEN 2 ELSE 1]

\* target_rating and new_twin_flag of a cluster
twin_target(cluster) ==
    IF ManualAnchors(cluster) # <<>>
    THEN [target_rating |-> MeanRating(ManualAnchors(cluster)), new_twin_flag |-> 2]
    ELSE [target_rating |-> MeanRating(cluster), new_twin_flag |-> 1]

\* final_rating of one member
twin_final_rating(track, tt) ==
    IF tt.new_twin_flag = 2 /\ track.is_manual THEN track.rating ELSE tt.target_rating

\* The inner loop of process_twins over the members of one cluster, from
\* member i on: acc holds state, rating, moods and the number of updates
RECURSIVE TwinMembers(_, _, _, _, _)
TwinMembers(cluster, i, tt, epsilon, acc) ==
    IF i > Len(cluster) THEN acc
    ELSE LET track == cluster[i]
             key == track.ratingKey
             final_rating == twin_final_rating(track, tt)
             changed == RLt(epsilon, RAbs(RSub(track.rating, final_rating)))
             rated == IF changed /\ ~config.DRY_RUN
                      THEN [acc EXCEPT !.rating = [@ EXCEPT ![key] = final_rating],
                                       !.moods = AddMood(AddMood(@, key, config.INFERRED_TAG),
                                                         key, config.TWIN_TAG),
                                       !.wrote = @ + 1]
                      ELSE acc
             counted == IF changed THEN [rated EXCEPT !.updated = @ + 1] ELSE rated
             stored == IF ~config.DRY_RUN
                       THEN [counted EXCEPT !.state = PutState(@, key, final_rating, tt.new_twin_flag)]
                       ELSE counted
         IN  TwinMembers(cluster, i + 1, tt, epsilon, stored)

\* The body of process_twins' loop for one cluster
TwinStep(cluster, st, rating, md, epsilon) ==
    TwinMembers(cluster, 1, twin_target(cluster), epsilon,
                [state |-> st, rating |-> rating, moods |-> md, updated |-> 0, wrote |-> 0])

----------------------------------------------------------------------------
(* The program.                                                            *)

\* The start letters the operator may give (0: none)
StartChars == {0}

\* The menu options the operator may run
Choices == 0 .. 5

Init ==
    /\ config \in ConfigChoices
    /\ \E t1 \in RatingChoices("T1"), t2 \in RatingChoices("T2"), t3 \in RatingChoices("T3"),
          a2 \in RatingChoices("A2"), r1 \in RatingChoices("R1") :
          userRating = [k \in Items |-> CASE k = "T1" -> t1 [] k = "T2" -> t2
                                           [] k = "T3" -> t3 [] k = "A2" -> a2
                                           [] k = "R1" -> r1 [] OTHER -> Zero]
    /\ moods = [k \in Items |-> {}]
    /\ state = << >>
    /\ disk = [exists |-> FALSE, ratings |-> << >>]
    /\ pc = "idle"
    /\ choice \in Choices
    /\ start_char \in StartChars
    /\ phase = 0
    /\ items = << >>
    /\ idx = 0
    /\ global_mean = Zero
    /\ updated_count = 0
    /\ skipped_count = 0
    /\ hijacked_count = 0
    /\ batch_counter = 0
    /\ current_section = 0
    /\ total_updated = 0
    /\ clusters = << >>
    /\ runs = 0
    /\ externals = 0
    /\ writes = 0
    /\ last = NoLast
    /\ lib = BaseLibrary
    /\ burst = 0
    /\ cancel = NoCancel

\* The operator starts the option: main's dispatch
StartRun ==
    /\ pc = "idle"
    /\ runs < MaxRuns
    /\ runs' = runs + 1
    /\ writes' = 0
    /\ total_updated' = 0
    /\ pc' = IF choice = 5 THEN "twins_build" ELSE "prior"
    /\ last' = [op |-> "start"]
    /\ UNCHANGED <<config, lib, burst, cancel, userRating, moods, state, disk, choice, start_char,
                   layerVars, global_mean, clusters, externals>>

\* Between two runs the user sets or clears a rating the engine owns
UserRates(k, v) ==
    /\ pc = "idle"
    /\ externals < MaxExternal
    /\ k \in DOMAIN state
    /\ v # userRating[k]
    /\ userRating' = [userRating EXCEPT ![k] = v]
    /\ externals' = externals + 1
    /\ last' = [op |-> "external", key |-> k]
    /\ UNCHANGED <<config, lib, burst, cancel, moods, state, disk, pc, choice, start_char, layerVars,
                   global_mean, total_updated, clusters, runs, writes>>

\* run_processing_phases: "Establish Prior"
EstablishPrior ==
    /\ pc = "prior"
    /\ \E p \in {get_library_prior(state, userRating)} :
           /\ global_mean' = p.prior
           /\ state' = p.state
           /\ last' = [op |-> "prior", n |-> p.n, deleted |-> DOMAIN state \ DOMAIN p.state]
    /\ phase' = 1
    /\ pc' = "fetch"
    /\ UNCHANGED <<config, lib, burst, cancel, userRating, moods, disk, choice, start_char, items, idx,
                   updated_count, skipped_count, hijacked_count, batch_counter,
                   current_section, total_updated, clusters, runs, externals, writes>>

\* The execution loop fetches the items of the next pass; process_layer
\* sorts them and resets its counters
BeginPass ==
    /\ pc = "fetch"
    /\ items' = SortedItems(Workload(choice)[phase].label)
    /\ idx' = 1
    /\ updated_count' = 0
    /\ skipped_count' = 0
    /\ hijacked_count' = 0
    /\ batch_counter' = 0
    /\ current_section' = 0
    /\ burst' = 0
    /\ cancel' = [cancel EXCEPT !.processed = {}, !.abandoned = {}]
    /\ pc' = "layer"
    /\ last' = [op |-> "fetch"]
    /\ UNCHANGED <<config, lib, userRating, moods, state, disk, choice, start_char, phase,
                   global_mean, total_updated, clusters, runs, externals, writes>>

\* start_char_floor of the pass in progress: the start letter applies to the
\* first pass of the workload only
start_char_floor == IF phase = 1 THEN start_char ELSE 0

\* One iteration of process_layer's loop
ProcessLayerItem ==
    /\ pc = "layer"
    /\ idx <= Len(items)
    /\ \E ph \in {Workload(choice)[phase]}, k \in {items[idx]} :
       \E res \in {LayerStep(ph.label, ph.direction, k, state, userRating, moods,
                             global_mean, start_char_floor,
                             calculate_dynamic_epsilon(Len(items)))} :
       \E upd \in {updated_count + (IF res.case = "update" THEN 1 ELSE 0)},
          bat \in {batch_counter + (IF res.case = "update" THEN 1 ELSE 0)} :
       \E periodic \in {~res.cont /\ upd % 100 = 0 /\ upd > 0},
          cooldown \in {~res.cont /\ bat >= config.COOLDOWN_BATCH} :
           /\ state' = res.state
           /\ userRating' = res.rating
           /\ moods' = res.moods
           /\ updated_count' = upd
           /\ skipped_count' = skipped_count + (IF res.case = "drift" THEN 1 ELSE 0)
           /\ hijacked_count' = hijacked_count + (IF res.case = "hijack" THEN 1 ELSE 0)
           /\ batch_counter' = IF cooldown THEN 0 ELSE bat
           /\ disk' = IF periodic \/ cooldown THEN save_state(disk, res.state) ELSE disk
           /\ current_section' = IF res.case = "skipped" THEN current_section
                                 ELSE first_char(ph.label, k)
           /\ writes' = writes + (IF res.wrote THEN 1 ELSE 0)
           /\ burst' = IF cooldown THEN 0 ELSE burst + (IF res.wrote THEN 1 ELSE 0)
           /\ last' = [op |-> "layer", label |-> ph.label, direction |-> ph.direction,
                       key |-> k, case |-> res.case, inferred |-> res.inferred,
                       had_state |-> k \in DOMAIN state, cooldown |-> cooldown,
                       saved |-> periodic \/ cooldown,
                       burst |-> burst + (IF res.wrote THEN 1 ELSE 0)]
           /\ cancel' = IF res.case = "skipped" THEN cancel
                        ELSE [cancel EXCEPT !.processed = @ \cup {k}]
    /\ idx' = idx + 1
    /\ UNCHANGED <<config, lib, pc, choice, start_char, phase, items, global_mean,
                   total_updated, clusters, runs, externals>>

\* The end of process_layer (the final save) and the execution loop's next turn
EndPass ==
    /\ pc = "layer"
    /\ idx > Len(items)
    /\ disk' = save_state(disk, state)
    /\ total_updated' = total_updated + updated_count
    /\ IF phase < Len(Workload(choice))
       THEN /\ phase' = phase + 1
            /\ pc' = "fetch"
       ELSE /\ phase' = phase
            /\ pc' = IF choice = 0 THEN "twins_build" ELSE "final_prior"
    /\ last' = [op |-> "endpass", label |-> Workload(choice)[phase].label,
                direction |-> Workload(choice)[phase].direction,
                updated |-> updated_count, skipped |-> skipped_count,
                hijacked |-> hijacked_count]
    /\ UNCHANGED <<config, lib, burst, cancel, userRating, moods, state, choice, start_char, items, idx,
                   global_mean, updated_count, skipped_count, hijacked_count,
                   batch_counter, current_section, clusters, runs, externals, writes>>

\* Where the program goes when process_twins returns
AfterTwins == IF choice = 0 THEN "final_prior" ELSE "main_save"

\* process_twins up to its loop: disabled, or no cluster, returns 0
BeginTwins ==
    /\ pc = "twins_build"
    /\ \E built \in {IF config.TWIN_ENABLED THEN build_twin_clusters(state, userRating)
                      ELSE << >>} :
           /\ clusters' = built
           /\ pc' = IF built = << >> THEN AfterTwins ELSE "twins"
    /\ idx' = 1
    /\ updated_count' = 0
    /\ batch_counter' = 0
    /\ burst' = 0
    /\ last' = [op |-> "twins_build"]
    /\ UNCHANGED <<config, lib, cancel, userRating, moods, state, disk, choice, start_char, phase,
                   items, global_mean, skipped_count, hijacked_count, current_section,
                   total_updated, runs, externals, writes>>

\* One iteration of process_twins' loop
ProcessTwinCluster ==
    /\ pc = "twins"
    /\ idx <= Len(clusters)
    /\ \E res \in {TwinStep(clusters[idx], state, userRating, moods,
                            calculate_dynamic_epsilon(Len(TrackOrder)))} :
       \E bat \in {batch_counter + res.updated} :
       \E cooldown \in {bat >= config.COOLDOWN_BATCH} :
           /\ state' = res.state
           /\ userRating' = res.rating
           /\ moods' = res.moods
           /\ updated_count' = updated_count + res.updated
           /\ batch_counter' = IF cooldown THEN 0 ELSE bat
           /\ disk' = IF cooldown THEN save_state(disk, res.state) ELSE disk
           /\ writes' = writes + res.wrote
           /\ burst' = IF cooldown THEN 0 ELSE burst + res.wrote
           /\ last' = [op |-> "twins", cluster |-> clusters[idx],
                       target |-> twin_target(clusters[idx]), cooldown |-> cooldown,
                       saved |-> cooldown, burst |-> burst + res.wrote]
    /\ idx' = idx + 1
    /\ UNCHANGED <<config, lib, cancel, pc, choice, start_char, phase, items, global_mean,
                   skipped_count, hijacked_count, current_section, total_updated,
                   clusters, runs, externals>>

\* The end of process_twins: the final save, and the return of the count
EndTwins ==
    /\ pc = "twins"
    /\ idx > Len(clusters)
    /\ disk' = save_state(disk, state)
    /\ total_updated' = total_updated + updated_count
    /\ pc' = AfterTwins
    /\ last' = [op |-> "endtwins", updated |-> updated_count]
    /\ UNCHANGED <<config, lib, burst, cancel, userRating, moods, state, choice, start_char, layerVars,
                   global_mean, clusters, runs, externals, writes>>

\* main, option 5: save_state() after process_twins
MainSave ==
    /\ pc = "main_save"
    /\ disk' = save_state(disk, state)
    /\ pc' = "idle"
    /\ last' = [op |-> "done", total_updated |-> total_updated]
    /\ UNCHANGED <<config, lib, burst, cancel, userRating, moods, state, choice, start_char, layerVars,
                   global_mean, total_updated, clusters, runs, externals, writes>>

\* run_processing_phases: the final prior and the run summary
RunSummary ==
    /\ pc = "final_prior"
    /\ state' = get_library_prior(state, userRating).state
    /\ pc' = "idle"
    /\ last' = [op |-> "done", total_updated |-> total_updated]
    /\ UNCHANGED <<config, lib, burst, cancel, userRating, moods, disk, choice, start_char, layerVars,
                   global_mean, total_updated, clusters, runs, externals, writes>>

Next ==
    \/ StartRun
    \/ \E k \in Items, v \in ExternalChoices : UserRates(k, v)
    \/ EstablishPrior
    \/ BeginPass
    \/ ProcessLayerItem
    \/ EndPass
    \/ BeginTwins
    \/ ProcessTwinCluster
    \/ EndTwins
    \/ MainSave
    \/ RunSummary

Spec == Init /\ [][Next]_vars

----------------------------------------------------------------------------
(* Option 5 on libraries that hold twins.                                  *)

\* Libraries in which the four tracks are by one artist: T2 and T4 may carry
\* another title, T2 and T3 may be longer, T4 may have no duration, and
\* album A2 may be a live album.
TwinLibraries ==
    { [BaseLibrary EXCEPT
         !.tracks = Tracks,
         !.original = [t \in Tracks |-> IF t \in {"T3", "T4"} THEN "abba" ELSE ""],
         !.title = [t \in Tracks |-> CASE t = "T2" -> t2 [] t = "T4" -> t4
                                        [] OTHER -> {"song"}],
         !.duration = [t \in Tracks |-> CASE t = "T1" -> 200000 [] t = "T2" -> d2
                                           [] t = "T3" -> d3 [] OTHER -> d4],
         !.live = [a \in Albums |-> a = "A2" /\ lv] ] :
        t2 \in {{"song"}, {"tune"}}, t4 \in {{"song"}, {"tune"}},
        d2 \in {202000, 211000}, d3 \in {203999, 230000}, d4 \in {204000, 0},
        lv \in BOOLEAN }

\* The ratings the tracks carry when option 5 starts
TwinRatings(k) ==
    CASE k = "T1" -> {R(7, 1)}
      [] k = "T2" -> {Zero, R(5, 1)}
      [] k = "T3" -> {R(9, 1), R(7, 1), R(703, 100)}
      [] k = "T4" -> {Zero, R(5, 1)}

\* The configurations option 5 runs under
TwinConfigs ==
    { BaseConfig,
      [BaseConfig EXCEPT !.DRY_RUN = TRUE],
      [BaseConfig EXCEPT !.COOLDOWN_BATCH = 2],
      [BaseConfig EXCEPT !.EXCLUDE_LIVE_ALBUMS = FALSE] }

\* load_state: the StateStore read from the state file, here records of
\* earlier inferences for some of the rated tracks
LoadedState(S, rating) == [k \in S |-> [r |-> rating[k], t |-> 0]]

InitTwins ==
    /\ config \in TwinConfigs
    /\ lib \in TwinLibraries
    /\ \E t1 \in TwinRatings("T1"), t2 \in TwinRatings("T2"), t3 \in TwinRatings("T3"),
          t4 \in TwinRatings("T4") :
          userRating = [k \in Items |-> CASE k = "T1" -> t1 [] k = "T2" -> t2
                                           [] k = "T3" -> t3 [] k = "T4" -> t4
                                           [] OTHER -> Zero]
    /\ \E S \in SUBSET {t \in Tracks : RLt(Zero, userRating[t])} :
          /\ state = LoadedState(S, userRating)
          /\ disk = IF S = {} THEN [exists |-> FALSE, ratings |-> << >>]
                    ELSE Versioned(lib.uuid, APP_VERSION, LoadedState(S, userRating))
          /\ moods = [k \in Items |-> IF k \in S THEN {config.INFERRED_TAG} ELSE {}]
    /\ pc = "idle"
    /\ choice = 5
    /\ start_char = 0
    /\ phase = 0
    /\ items = << >>
    /\ idx = 0
    /\ global_mean = Zero
    /\ updated_count = 0
    /\ skipped_count = 0
    /\ hijacked_count = 0
    /\ batch_counter = 0
    /\ current_section = 0
    /\ total_updated = 0
    /\ clusters = << >>
    /\ runs = 0
    /\ externals = 0
    /\ writes = 0
    /\ last = NoLast
    /\ burst = 0
    /\ cancel = NoCancel

NextTwins ==
    \/ StartRun
    \/ BeginTwins
    \/ ProcessTwinCluster
    \/ EndTwins
    \/ MainSave

SpecTwins == InitTwins /\ [][NextTwins]_vars

----------------------------------------------------------------------------
(* The admin tools and the bulk import.                                    *)

\* The items of the library
LibItems == Artists \cup Albums \cup lib.tracks

\* The items that carry a tag
Tagged(md, tag) == {k \in LibItems : tag \in md[k]}

\* run_reconstruction: the tagged, rated items without a StateRecord
restored_items(st, rating, md) ==
    {k \in Tagged(md, config.INFERRED_TAG) : RLt(Zero, rating[k]) /\ k \notin DOMAIN st}

\* Option 8, Reconstruct State: a record for every restored item, and a save
\* when there is one
run_reconstruction ==
    /\ pc = "idle"
    /\ runs < MaxRuns
    /\ runs' = runs + 1
    /\ \E restored \in {IF config.INFERRED_TAG = "" THEN {}
                        ELSE restored_items(state, userRating, moods)} :
       \E st \in {IF config.DRY_RUN THEN state
                  ELSE [k \in DOMAIN state \cup restored |->
                          IF k \in DOMAIN state THEN state[k]
                          ELSE [r |-> userRating[k], t |-> 0]]} :
          /\ state' = st
          /\ disk' = IF restored # {} /\ ~config.DRY_RUN THEN save_state(disk, st) ELSE disk
          /\ last' = [op |-> "reconstruction", restored_count |-> Cardinality(restored)]
    /\ UNCHANGED <<config, lib, burst, cancel, userRating, moods, pc, choice, start_char,
                   layerVars, global_mean, total_updated, clusters, externals, writes>>

\* run_tag_sync, for one item: the moods it leaves
tag_sync_item(md, k, st) ==
    IF k \in DOMAIN st /\ config.INFERRED_TAG \notin md[k]
    THEN (IF config.DRY_RUN THEN md ELSE AddMood(md, k, config.INFERRED_TAG))
    ELSE IF k \notin DOMAIN st /\ config.INFERRED_TAG \in md[k]
    THEN (IF config.DRY_RUN THEN md ELSE RemoveMood(md, k, config.INFERRED_TAG))
    ELSE md

\* Whether run_tag_sync counts a change for the item
tag_sync_counts(md, k, st) ==
    (k \in DOMAIN st) # (config.INFERRED_TAG \in md[k])

\* Synchronize Plex Tags, confirmed by the operator: every item's tag is made
\* to match the StateStore
run_tag_sync ==
    /\ pc = "idle"
    /\ runs < MaxRuns
    /\ runs' = runs + 1
    /\ moods' = IF config.INFERRED_TAG = "" THEN moods
                ELSE [k \in Items |-> IF k \in LibItems THEN tag_sync_item(moods, k, state)[k]
                                      ELSE moods[k]]
    /\ last' = [op |-> "tag_sync",
                changes |-> IF config.INFERRED_TAG = "" THEN 0
                            ELSE Cardinality({k \in LibItems : tag_sync_counts(moods, k, state)})]
    /\ UNCHANGED <<config, lib, burst, cancel, userRating, state, disk, pc, choice, start_char,
                   layerVars, global_mean, total_updated, clusters, externals, writes>>

\* (current_rating * 2) % 1 == 0: the rating is a whole number of half points
is_standard(r) == (2 * r[1]) % r[2] = 0

\* Cleanup / Undo.  The state-driven loop compares the observed rating with
\* the stored record itself (abs(current_rating - stored_rating), a float
\* minus a dict): the TypeError is swallowed by `except Exception: pass`, so
\* the loop removes nothing.  The final save and the safety sweep follow; the
\* sweep's search has no libtype, and returns the tagged items of the
\* section's default type or of every type.
run_cleanup ==
    /\ pc = "idle"
    /\ runs < MaxRuns
    /\ runs' = runs + 1
    /\ disk' = save_state(disk, state)
    /\ \E scope \in {Artists, LibItems} :
       \E items_with_tag \in {IF config.INFERRED_TAG = "" THEN {}
                              ELSE Tagged(moods, config.INFERRED_TAG) \cap scope} :
          /\ userRating' = IF config.DRY_RUN THEN userRating
                           ELSE [k \in Items |->
                                   IF k \in items_with_tag /\ ~is_standard(userRating[k])
                                   THEN Zero ELSE userRating[k]]
          /\ moods' = IF config.DRY_RUN THEN moods
                      ELSE [k \in Items |-> IF k \in items_with_tag
                                            THEN moods[k] \ {config.INFERRED_TAG}
                                            ELSE moods[k]]
          /\ last' = [op |-> "cleanup", swept |-> items_with_tag]
    /\ UNCHANGED <<config, lib, burst, cancel, state, pc, choice, start_char,
                   layerVars, global_mean, total_updated, clusters, externals, writes>>

\* The rows a CSV file of the bulk import may hold: the rating in stars
\* (none: blank), the rating type, the release year (0: blank)
ImportRows ==
    { [ratingKey |-> k, userRating |-> r[1], ratingType |-> r[2], releaseYear |-> r[3]] :
        k \in {"A1", "T1"},
        r \in { <<Some(R(4, 1)), "inferred", 2>>, <<None, "manual", 0>>,
                <<Some(R(6, 1)), "manual", 0>>, <<None, "inferred", 2>> } }

\* float(new_rating_str) * 2.0, kept within 0 .. 10
new_rating_10_point(row) ==
    IF ~row.userRating.some THEN None
    ELSE LET v == RMul(row.userRating.v, R(2, 1))
         IN  Some(IF RLt(v, Zero) THEN Zero ELSE RMin(R(10, 1), v))

\* Bulk import of a file of one row, of the type of the row's item
run_bulk_import(row) ==
    /\ pc = "idle"
    /\ runs < MaxRuns
    /\ runs' = runs + 1
    /\ \E key \in {row.ratingKey}, new \in {new_rating_10_point(row)} :
       \E rating_changed \in {\/ ~new.some /\ userRating[key] # Zero
                              \/ new.some /\ RLt(NoiseFloor, RAbs(RSub(userRating[key], new.v)))},
          is_inferred \in {(key \in DOMAIN state)},
          should_be_inferred \in {row.ratingType = "inferred" /\ new.some},
          year_changed \in {(key \in Albums) /\ row.releaseYear # 0
                                               /\ row.releaseYear # lib.year[key]} :
       \E st \in {IF config.DRY_RUN THEN state
                  ELSE IF should_be_inferred /\ (~is_inferred \/ rating_changed)
                       THEN PutState(state, key, new.v, 0)
                  ELSE IF ~should_be_inferred /\ is_inferred THEN DelState(state, key)
                  ELSE state} :
          /\ userRating' = IF rating_changed /\ ~config.DRY_RUN
                           THEN [userRating EXCEPT ![key] = IF new.some THEN new.v ELSE Zero]
                           ELSE userRating
          /\ state' = st
          /\ moods' = IF ~config.DRY_RUN /\ ~should_be_inferred /\ is_inferred
                      THEN RemoveMood(moods, key, config.INFERRED_TAG)
                      ELSE moods
          /\ lib' = IF year_changed /\ ~config.DRY_RUN
                    THEN [lib EXCEPT !.year[key] = row.releaseYear]
                    ELSE lib
          /\ disk' = IF ~config.DRY_RUN THEN save_state(disk, st) ELSE disk
          /\ last' = [op |-> "bulk_import", key |-> key,
                      updated |-> \/ rating_changed
                                  \/ should_be_inferred /\ ~is_inferred
                                  \/ ~should_be_inferred /\ is_inferred
                                  \/ year_changed]
    /\ UNCHANGED <<config, burst, cancel, pc, choice, start_char,
                   layerVars, global_mean, total_updated, clusters, externals, writes>>

\* The configurations the admin tools run under
AdminConfigs ==
    { BaseConfig,
      [BaseConfig EXCEPT !.DRY_RUN = TRUE],
      [BaseConfig EXCEPT !.DRY_RUN = TRUE, !.COOLDOWN_BATCH = 2] }

\* The engine started on a library it has worked on before: album A1 and
\* track T2 may carry an inferred rating with a StateRecord, A1 and T1 may
\* carry the tag, and the state file, when there is one, holds the StateStore.
InitAdmin ==
    /\ config \in AdminConfigs
    /\ lib = BaseLibrary
    /\ \E recorded \in SUBSET {"A1", "T2"}, tagged \in SUBSET {"A1", "T1"} :
          /\ userRating = [k \in Items |->
                             CASE k = "T1" -> R(6, 1)
                               [] k = "T3" -> R(4, 1)
                               [] k = "A1" /\ k \in recorded -> R(21, 4)
                               [] k = "T2" /\ k \in recorded -> R(5, 1)
                               [] OTHER -> Zero]
          /\ state = [k \in recorded |-> [r |-> IF k = "A1" THEN R(21, 4) ELSE R(5, 1),
                                          t |-> 0]]
          /\ disk = IF recorded = {} THEN [exists |-> FALSE, ratings |-> << >>]
                    ELSE Versioned(lib.uuid, APP_VERSION,
                                   [k \in recorded |->
                                      [r |-> IF k = "A1" THEN R(21, 4) ELSE R(5, 1),
                                       t |-> 0]])
          /\ moods = [k \in Items |-> IF k \in tagged THEN {config.INFERRED_TAG} ELSE {}]
    /\ pc = "idle"
    /\ choice \in Choices
    /\ start_char = 0
    /\ phase = 0
    /\ items = << >>
    /\ idx = 0
    /\ global_mean = Zero
    /\ updated_count = 0
    /\ skipped_count = 0
    /\ hijacked_count = 0
    /\ batch_counter = 0
    /\ current_section = 0
    /\ total_updated = 0
    /\ clusters = << >>
    /\ runs = 0
    /\ externals = 0
    /\ writes = 0
    /\ last = NoLast
    /\ burst = 0
    /\ cancel = NoCancel

\* Every operation of the menus, in any order
NextAdmin ==
    \/ StartRun
    \/ EstablishPrior
    \/ BeginPass
    \/ ProcessLayerItem
    \/ EndPass
    \/ BeginTwins
    \/ ProcessTwinCluster
    \/ EndTwins
    \/ MainSave
    \/ RunSummary
    \/ run_reconstruction
    \/ run_tag_sync
    \/ run_cleanup
    \/ \E row \in ImportRows : run_bulk_import(row)

SpecAdmin == InitAdmin /\ [][NextAdmin]_vars

----------------------------------------------------------------------------
(* Interrupts: pause, resume and quit in process_layer.                    *)

\* opt_map: the option number of a pass
opt_map(ph) ==
    CASE ph.label = "Album" /\ ph.direction = "UP" -> 1
      [] ph.label = "Artist" /\ ph.direction = "UP" -> 2
      [] ph.label = "Album" /\ ph.direction = "DOWN" -> 3
      [] ph.label = "Track" /\ ph.direction = "DOWN" -> 4

\* A checkpoint that forgets the section in progress
restart_let_StartOnly(section) == IF start_char_floor # 0 THEN start_char_floor ELSE 1

\* restart_let: the section in progress, else the start letter, else "A"
restart_let(section) ==
    IF section # 0 THEN section
    ELSE IF start_char_floor # 0 THEN start_char_floor
    ELSE 1

\* Where a KeyboardInterrupt may reach the body of an iteration: before the
\* item's section is entered (lines 886-901) or after it, before the item's
\* rating is worked on (lines 902-976)
Positions == {"early", "late"}

\* A KeyboardInterrupt in the body of the iteration for the item in
\* progress, and the operator's answer at handle_pause: 'r' abandons the
\* item, resets the burst counter and goes on with the next item; 'q' saves
\* the state, reports the checkpoint and exits
Interrupt(pos, answer) ==
    /\ pc = "layer"
    /\ idx <= Len(items)
    /\ \E ph \in {Workload(choice)[phase]}, k \in {items[idx]} :
       \E fc \in {first_char(ph.label, k)} :
       \E section \in {IF pos = "late" THEN fc ELSE current_section} :
          /\ pos = "late" => fc >= start_char_floor
          /\ current_section' = section
          /\ IF answer = "q"
             THEN /\ disk' = save_state(disk, state)
                  /\ cancel' = [cancel EXCEPT !.reported = TRUE, !.opt = opt_map(ph),
                                              !.letter = restart_let(section)]
                  /\ pc' = "exited"
                  /\ UNCHANGED <<idx, batch_counter>>
             ELSE /\ batch_counter' = 0
                  /\ idx' = idx + 1
                  /\ cancel' = [cancel EXCEPT !.abandoned = @ \cup {k}]
                  /\ UNCHANGED <<disk, pc>>
          /\ last' = [op |-> "interrupt", pos |-> pos, answer |-> answer, key |-> k,
                      label |-> ph.label, direction |-> ph.direction, first_char |-> fc]
    /\ UNCHANGED <<config, lib, burst, userRating, moods, state, choice, start_char, phase,
                   items, global_mean, updated_count, skipped_count, hijacked_count,
                   total_updated, clusters, runs, externals, writes>>

\* After a graceful exit the operator starts the program again, with the
\* option and the letter the checkpoint named: load_state, then
\* run_processing_phases
Restart ==
    /\ pc = "exited"
    /\ ~cancel.resumed
    /\ state' = IF disk.exists THEN disk.ratings ELSE << >>
    /\ choice' = cancel.opt
    /\ start_char' = cancel.letter
    /\ cancel' = [cancel EXCEPT !.resumed = TRUE, !.before = cancel.processed,
                                !.start = start_char_floor]
    /\ runs' = runs + 1
    /\ writes' = 0
    /\ total_updated' = 0
    /\ pc' = "prior"
    /\ last' = [op |-> "restart"]
    /\ UNCHANGED <<config, lib, burst, userRating, moods, disk, layerVars, global_mean,
                   clusters, externals>>

\* Libraries for the interrupted passes: the base library, and the base
\* library with an artist that has no title
CancelLibraries == {BaseLibrary, [BaseLibrary EXCEPT !.artist_title["R1"] = ""]}

\* The configurations of the interrupted passes
CancelConfigs == {BaseConfig, [BaseConfig EXCEPT !.DRY_RUN = TRUE]}

\* One pass (options 1 to 4), with or without a start letter
InitCancel ==
    /\ config \in CancelConfigs
    /\ lib \in CancelLibraries
    /\ \E t1 \in RatingChoices("T1"), t3 \in RatingChoices("T3"), a2 \in RatingChoices("A2"),
          r1 \in RatingChoices("R1") :
          userRating = [k \in Items |-> CASE k = "T1" -> t1 [] k = "T3" -> t3
                                           [] k = "A2" -> a2 [] k = "R1" -> r1
                                           [] OTHER -> Zero]
    /\ moods = [k \in Items |-> {}]
    /\ state = << >>
    /\ disk = [exists |-> FALSE, ratings |-> << >>]
    /\ pc = "idle"
    /\ choice \in 1 .. 4
    /\ start_char \in {0, 2}
    /\ phase = 0
    /\ items = << >>
    /\ idx = 0
    /\ global_mean = Zero
    /\ updated_count = 0
    /\ skipped_count = 0
    /\ hijacked_count = 0
    /\ batch_counter = 0
    /\ current_section = 0
    /\ total_updated = 0
    /\ clusters = << >>
    /\ runs = 0
    /\ externals = 0
    /\ writes = 0
    /\ last = NoLast
    /\ burst = 0
    /\ cancel = NoCancel

NextCancel ==
    \/ StartRun
    \/ EstablishPrior
    \/ BeginPass
    \/ ProcessLayerItem
    \/ \E pos \in Positions, answer \in {"r", "q"} : Interrupt(pos, answer)
    \/ EndPass
    \/ RunSummary
    \/ Restart

SpecCancel == InitCancel /\ [][NextCancel]_vars

----------------------------------------------------------------------------
(* Remote failures and crashes in process_layer.                           *)

\* The remote calls process_layer makes for an item
RemoteCalls == {"children", "parent", "rate", "addMood", "removeMood"}

\* The rest of a pass from item i on, when nothing stops it: the loop of
\* process_layer over the items that are left.  (Where a pass is stopped,
\* "clean" tells that no failure had been caught in it before.)
RECURSIVE FinishPass(_, _, _, _, _, _, _, _, _, _)
FinishPass(label, direction, its, i, st, rating, md, gm, floor_char, epsilon) ==
    IF i > Len(its) THEN [stopped |-> TRUE, state |-> st, rating |-> rating, moods |-> md]
    ELSE CHOOSE out \in
           { FinishPass(label, direction, its, i + 1, res.state, res.rating, res.moods,
                        gm, floor_char, epsilon)
             : res \in {LayerStep(label, direction, its[i], st, rating, md, gm,
                                  floor_char, epsilon)} } : TRUE

\* A remote call made for the item in progress raises an exception.  The
\* body of the loop catches KeyboardInterrupt only, and the parent fetch of
\* a DOWN pass has an except of its own (continue): every other failure
\* leaves process_layer, run_processing_phases and main, and the process
\* ends without a save.  What the body did before the call stays done.
RemoteFailure(call) ==
    /\ pc = "layer"
    /\ idx <= Len(items)
    /\ ~cancel.expected.stopped
    /\ \E ph \in {Workload(choice)[phase]}, k \in {items[idx]} :
       \E res \in {LayerStep(ph.label, ph.direction, k, state, userRating, moods,
                             global_mean, start_char_floor,
                             calculate_dynamic_epsilon(Len(items)))} :
          /\ CASE call = "removeMood" ->
                    res.case = "hijack" /\ ~config.DRY_RUN /\ config.INFERRED_TAG # ""
               [] call = "children" ->
                    ph.direction = "UP" /\ res.case \notin {"skipped", "hijack", "manual"}
               [] call = "parent" ->
                    ph.direction = "DOWN" /\ res.case \notin {"skipped", "hijack", "manual"}
               [] call = "rate" -> res.wrote
               [] call = "addMood" ->
                    res.wrote /\ config.INFERRED_TAG # ""
                              /\ config.INFERRED_TAG \notin moods[k]
          /\ state' = CASE call = "removeMood" -> DelState(state, k)
                        [] call = "addMood" -> res.state
                        [] OTHER -> state
          /\ userRating' = IF call = "addMood" THEN res.rating ELSE userRating
          /\ current_section' = first_char(ph.label, k)
          /\ IF call = "parent"
             THEN /\ idx' = idx + 1
                  /\ cancel' = [cancel EXCEPT !.abandoned = @ \cup {k}]
                  /\ UNCHANGED pc
             ELSE /\ pc' = "crashed"
                  /\ cancel' = [cancel EXCEPT !.expected =
                                   FinishPass(ph.label, ph.direction, items, idx, state,
                                              userRating, moods, global_mean,
                                              start_char_floor,
                                              calculate_dynamic_epsilon(Len(items)))
                                   @@ [clean |-> cancel.abandoned = {}]]
                  /\ UNCHANGED idx
          /\ last' = [op |-> "failure", call |-> call, key |-> k, label |-> ph.label,
                      direction |-> ph.direction, caught |-> call = "parent"]
    /\ UNCHANGED <<config, lib, burst, moods, disk, choice, start_char, phase, items,
                   global_mean, updated_count, skipped_count, hijacked_count,
                   batch_counter, total_updated, clusters, runs, externals, writes>>

\* The process is killed between two iterations of the loop
Crash ==
    /\ pc = "layer"
    /\ ~cancel.expected.stopped
    /\ \E ph \in {Workload(choice)[phase]} :
          cancel' = [cancel EXCEPT !.expected =
                        FinishPass(ph.label, ph.direction, items, idx, state, userRating,
                                   moods, global_mean, start_char_floor,
                                   calculate_dynamic_epsilon(Len(items)))
                        @@ [clean |-> cancel.abandoned = {}]]
    /\ pc' = "crashed"
    /\ last' = [op |-> "crash"]
    /\ UNCHANGED <<config, lib, burst, userRating, moods, state, disk, choice, start_char,
                   layerVars, global_mean, total_updated, clusters, runs, externals,
                   writes>>

\* After the process has ended in a pass the operator runs the same option
\* again: main's load_state, then run_processing_phases
Rerun ==
    /\ pc = "crashed"
    /\ state' = IF disk.exists THEN disk.ratings ELSE << >>
    /\ cancel' = [cancel EXCEPT !.resumed = TRUE, !.before = cancel.processed]
    /\ runs' = runs + 1
    /\ writes' = 0
    /\ total_updated' = 0
    /\ pc' = "prior"
    /\ last' = [op |-> "rerun"]
    /\ UNCHANGED <<config, lib, burst, userRating, moods, disk, choice, start_char,
                   layerVars, global_mean, clusters, externals>>

\* The configurations of the passes that fail: a pass that saves at the end
\* only, a pass that saves after every second write, a dry run
FailureConfigs ==
    { BaseConfig, [BaseConfig EXCEPT !.COOLDOWN_BATCH = 2],
      [BaseConfig EXCEPT !.DRY_RUN = TRUE] }

\* One pass (options 1 to 4) over a catalog the engine may have rated
\* before (a first run has left its records), with a user's later change
InitFailure ==
    /\ config \in FailureConfigs
    /\ lib = BaseLibrary
    /\ \E t1 \in RatingChoices("T1"), t3 \in RatingChoices("T3"), a2 \in RatingChoices("A2"),
          r1 \in RatingChoices("R1"), old \in SUBSET {"A1", "T2"} :
          /\ userRating = [k \in Items |-> CASE k = "T1" -> t1 [] k = "T3" -> t3
                                              [] k = "A2" -> a2 [] k = "R1" -> r1
                                              [] k \in old -> R(5, 1)
                                              [] OTHER -> Zero]
          /\ \E stale \in SUBSET old :
                state = [k \in old |-> [r |-> IF k \in stale THEN R(7, 1) ELSE R(5, 1),
                                        t |-> 0]]
          /\ moods = [k \in Items |-> IF k \in old THEN {config.INFERRED_TAG} \ {""}
                                      ELSE {}]
    /\ disk = Versioned(lib.uuid, APP_VERSION, state)
    /\ pc = "idle"
    /\ choice \in 1 .. 4
    /\ start_char = 0
    /\ phase = 0
    /\ items = << >>
    /\ idx = 0
    /\ global_mean = Zero
    /\ updated_count = 0
    /\ skipped_count = 0
    /\ hijacked_count = 0
    /\ batch_counter = 0
    /\ current_section = 0
    /\ total_updated = 0
    /\ clusters = << >>
    /\ runs = 0
    /\ externals = 0
    /\ writes = 0
    /\ last = NoLast
    /\ burst = 0
    /\ cancel = NoCancel

NextFailure ==
    \/ StartRun
    \/ EstablishPrior
    \/ BeginPass
    \/ ProcessLayerItem
    \/ \E call \in RemoteCalls : RemoteFailure(call)
    \/ Crash
    \/ Rerun
    \/ EndPass
    \/ RunSummary

SpecFailure == InitFailure /\ [][NextFailure]_vars

----------------------------------------------------------------------------
(* The state file: load_state.                                             *)

\* A number in the ratings of a state file: isinstance(x, (int, float))
Number(v) == [num |-> v]
IsNumber(x) == "num" \in DOMAIN x

\* The legacy state file: a flat map of keys to numbers, no 'ratings' key
Flat(ratings) == [exists |-> TRUE, versioned |-> FALSE, ratings |-> ratings]

\* The order of the keys in the ratings of a state file
FileOrder == <<"A1", "T2">>

\* next(iter(ratings_data))
first_key(rd) == FileOrder[CHOOSE i \in DOMAIN FileOrder :
                             /\ FileOrder[i] \in DOMAIN rd
                             /\ \A j \in 1 .. i - 1 : FileOrder[j] \notin DOMAIN rd]

\* The stored identity is set and is not the identity of the library
uuid_mismatch(doc) ==
    doc.versioned /\ doc.library_uuid # "" /\ doc.library_uuid # lib.uuid

\* The first value of the ratings is a number
old_format(doc) ==
    DOMAIN doc.ratings # {} /\ IsNumber(doc.ratings[first_key(doc.ratings)])

\* A migration that marks the records as twins
migrated_ratings_Twin(rd) ==
    [key \in DOMAIN rd |-> [r |-> IF IsNumber(rd[key]) THEN rd[key].num ELSE rd[key],
                            t |-> 1]]

\* migrated_ratings[key] = {'r': rating, 't': 0}
migrated_ratings(rd) ==
    [key \in DOMAIN rd |-> [r |-> IF IsNumber(rd[key]) THEN rd[key].num ELSE rd[key],
                            t |-> 0]]

\* state.update(ratings)
state_update(st, rd) ==
    [key \in DOMAIN st \cup DOMAIN rd |-> IF key \in DOMAIN rd THEN rd[key] ELSE st[key]]

\* load_state: the StateStore it leaves, whether it has ended the program
\* (sys.exit(1)) and what it has asked the operator (input)
load_state(st, doc, confirm_uuid, confirm_upgrade) ==
    IF ~doc.exists THEN [state |-> st, exited |-> FALSE, asked |-> {}]
    ELSE IF uuid_mismatch(doc) /\ confirm_uuid # "y"
    THEN [state |-> st, exited |-> TRUE, asked |-> {"uuid"}]
    ELSE \* unversioned: "Legacy state file format detected"
         CHOOSE out \in
           { IF old_format(doc)
             THEN (IF confirm_upgrade # "y"
                   THEN [state |-> st, exited |-> TRUE, asked |-> asked \cup {"upgrade"}]
                   ELSE [state |-> state_update(st, migrated_ratings(doc.ratings)),
                         exited |-> FALSE, asked |-> asked \cup {"upgrade"}])
             ELSE [state |-> state_update(st, doc.ratings), exited |-> FALSE,
                   asked |-> asked]
             : asked \in {IF uuid_mismatch(doc) THEN {"uuid"} ELSE {}} } : TRUE

\* What the operator answers when asked ("eof": there is no input to read,
\* input() raises EOFError and the program ends)
Answers == {"y", "n", "eof"}

\* main up to its dispatch: load_state(music), then the option of the
\* command line is run at once (automation mode, after which main returns:
\* no run is left), or the menu is shown
LoadState(confirm_uuid, confirm_upgrade) ==
    /\ pc \in {"boot_auto", "boot_menu"}
    /\ \E res \in {load_state(state, disk, confirm_uuid, confirm_upgrade)} :
          /\ "uuid" \notin res.asked => confirm_uuid = "y"
          /\ "upgrade" \notin res.asked => confirm_upgrade = "y"
          /\ state' = res.state
          /\ pc' = IF res.exited THEN "exited"
                   ELSE IF pc = "boot_menu" THEN "idle"
                   ELSE IF choice = 5 THEN "twins_build" ELSE "prior"
          /\ runs' = IF ~res.exited /\ pc = "boot_auto" THEN MaxRuns ELSE runs
          /\ last' = [op |-> "load", automation |-> pc = "boot_auto", asked |-> res.asked,
                      exited |-> res.exited, mismatch |-> disk.exists /\ uuid_mismatch(disk),
                      confirm_uuid |-> confirm_uuid, confirm_upgrade |-> confirm_upgrade]
    /\ UNCHANGED <<config, lib, burst, cancel, userRating, moods, disk, choice, start_char,
                   layerVars, global_mean, total_updated, clusters, externals, writes>>

\* The shapes of the records of a state file: typed, wrapped but untyped,
\* plain numbers
Shapes == {"typed", "untyped", "number"}

FileRecord(shape, v) ==
    CASE shape = "typed" -> [r |-> v, t |-> 0]
      [] shape = "untyped" -> [r |-> v]
      [] shape = "number" -> Number(v)

\* The state files the program may find: none, a flat legacy map, a
\* versioned document written for this library, for another one or with no
\* identity, by this version or an older one
StateFiles ==
    {[exists |-> FALSE, ratings |-> << >>]}
    \cup {Flat([k \in S |-> Number(R(5, 1))]) : S \in SUBSET {"A1", "T2"}}
    \cup {Versioned(uuid, version, [k \in S |-> FileRecord(shape, R(5, 1))]) :
            uuid \in {"lib-A", "lib-B", ""}, version \in {APP_VERSION, "1.3.0"},
            shape \in Shapes, S \in (SUBSET {"A1", "T2"}) \ {{}}}

\* The configurations of the runs that load a state file
LoadConfigs ==
    { BaseConfig, [BaseConfig EXCEPT !.DRY_RUN = TRUE],
      [BaseConfig EXCEPT !.TWIN_ENABLED = FALSE] }

\* The program is started, with an option on the command line or without,
\* on a library where A1 and T2 carry the rating the state files record
\* (no two rated tracks are twins there: process_twins finds no cluster)
InitLoad ==
    /\ config \in LoadConfigs
    /\ lib = BaseLibrary
    /\ \E t1 \in RatingChoices("T1") :
          userRating = [k \in Items |-> CASE k = "T1" -> t1
                                           [] k \in {"A1", "T2"} -> R(5, 1)
                                           [] OTHER -> Zero]
    /\ moods = [k \in Items |-> {}]
    /\ state = << >>
    /\ disk \in StateFiles
    /\ pc \in {"boot_auto", "boot_menu"}
    /\ choice \in {2, 4, 5}
    /\ start_char = 0
    /\ phase = 0
    /\ items = << >>
    /\ idx = 0
    /\ global_mean = Zero
    /\ updated_count = 0
    /\ skipped_count = 0
    /\ hijacked_count = 0
    /\ batch_counter = 0
    /\ current_section = 0
    /\ total_updated = 0
    /\ clusters = << >>
    /\ runs = 0
    /\ externals = 0
    /\ writes = 0
    /\ last = NoLast
    /\ burst = 0
    /\ cancel = [NoCancel EXCEPT !.file = disk]

NextLoad ==
    \/ \E confirm_uuid \in Answers, confirm_upgrade \in Answers :
          LoadState(confirm_uuid, confirm_upgrade)
    \/ StartRun
    \/ EstablishPrior
    \/ BeginPass
    \/ ProcessLayerItem
    \/ EndPass
    \/ BeginTwins
    \/ MainSave
    \/ RunSummary

SpecLoad == InitLoad /\ [][NextLoad]_vars

----------------------------------------------------------------------------
(* The epsilon of a pass, as a function of the number of its items.        *)

\* The numbers of items the epsilon is computed for: the smallest ones, the
\* ones around 1000, and the two on either side of every step
ItemCounts ==
    (0 .. 3) \cup (995 .. 1005)
    \cup {EpsilonSteps[i] - 1 : i \in DOMAIN EpsilonSteps}
    \cup {EpsilonSteps[i] : i \in DOMAIN EpsilonSteps}

\* A pass is about to start on idx items
InitEpsilon ==
    /\ config \in {BaseConfig, [BaseConfig EXCEPT !.DYNAMIC_PRECISION = FALSE]}
    /\ lib = BaseLibrary
    /\ userRating = [k \in Items |-> Zero]
    /\ moods = [k \in Items |-> {}]
    /\ state = << >>
    /\ disk = [exists |-> FALSE, ratings |-> << >>]
    /\ pc = "epsilon"
    /\ choice = 1
    /\ start_char = 0
    /\ phase = 0
    /\ items = << >>
    /\ idx \in ItemCounts
    /\ global_mean = Zero
    /\ updated_count = 0
    /\ skipped_count = 0
    /\ hijacked_count = 0
    /\ batch_counter = 0
    /\ current_section = 0
    /\ total_updated = 0
    /\ clusters = << >>
    /\ runs = 0
    /\ externals = 0
    /\ writes = 0
    /\ last = NoLast
    /\ burst = 0
    /\ cancel = NoCancel

\* epsilon = calculate_dynamic_epsilon(len(items))
ComputeEpsilon ==
    /\ pc = "epsilon"
    /\ last' = [op |-> "epsilon", item_count |-> idx,
                epsilon |-> calculate_dynamic_epsilon(idx)]
    /\ pc' = "computed"
    /\ UNCHANGED <<config, lib, burst, cancel, userRating, moods, state, disk, choice,
                   start_char, layerVars, global_mean, total_updated, clusters, runs,
                   externals, writes>>

NextEpsilon == ComputeEpsilon

SpecEpsilon == InitEpsilon /\ [][NextEpsilon]_vars

----------------------------------------------------------------------------
(* Sequences of passes: the operator picks another option at the menu.     *)

\* main's menu: the operator selects an option other than the last one
SelectOption(c) ==
    /\ pc = "idle"
    /\ runs < MaxRuns
    /\ c # choice
    /\ choice' = c
    /\ last' = [op |-> "menu", choice |-> c]
    /\ UNCHANGED <<config, lib, burst, cancel, userRating, moods, state, disk, pc,
                   start_char, layerVars, global_mean, total_updated, clusters, runs,
                   externals, writes>>

\* The configurations of the sequences of passes
SequenceConfigs == {BaseConfig, [BaseConfig EXCEPT !.DRY_RUN = TRUE]}

\* The catalog as earlier runs and the user have left it: A1 and T2 may
\* carry a rating of the engine, with its record and its tag; the ratings
\* of the items that have no record are the user's
InitSequence ==
    /\ config \in SequenceConfigs
    /\ lib = BaseLibrary
    /\ \E t1 \in RatingChoices("T1"), t3 \in RatingChoices("T3"), a2 \in RatingChoices("A2"),
          r1 \in RatingChoices("R1"), old \in SUBSET {"A1", "T2"} :
          /\ userRating = [k \in Items |-> CASE k = "T1" -> t1 [] k = "T3" -> t3
                                              [] k = "A2" -> a2 [] k = "R1" -> r1
                                              [] k \in old -> R(5, 1)
                                              [] OTHER -> Zero]
          /\ state = [k \in old |-> [r |-> R(5, 1), t |-> 0]]
          /\ moods = [k \in Items |-> IF k \in old THEN {config.INFERRED_TAG} ELSE {}]
    /\ disk = Versioned(lib.uuid, APP_VERSION, state)
    /\ pc = "idle"
    /\ choice \in Choices
    /\ start_char = 0
    /\ phase = 0
    /\ items = << >>
    /\ idx = 0
    /\ global_mean = Zero
    /\ updated_count = 0
    /\ skipped_count = 0
    /\ hijacked_count = 0
    /\ batch_counter = 0
    /\ current_section = 0
    /\ total_updated = 0
    /\ clusters = << >>
    /\ runs = 0
    /\ externals = 0
    /\ writes = 0
    /\ last = NoLast
    /\ burst = 0
    /\ cancel = [NoCancel EXCEPT !.origin =
                    [k \in {i \in Items \ DOMAIN state : RLt(Zero, userRating[i])}
                       |-> userRating[k]]]

NextSequence ==
    \/ \E c \in Choices : SelectOption(c)
    \/ StartRun
    \/ EstablishPrior
    \/ BeginPass
    \/ ProcessLayerItem
    \/ EndPass
    \/ BeginTwins
    \/ ProcessTwinCluster
    \/ EndTwins
    \/ MainSave
    \/ RunSummary

SpecSequence == InitSequence /\ [][NextSequence]_vars

----------------------------------------------------------------------------
(* An interrupt between the rating write and the StateRecord.              *)

\* A KeyboardInterrupt reaches the body of the iteration after item.rate has
\* returned and before state[key] is set (lines 988-989): the rating is on
\* the server, the record, the tag and the counters are not touched; the
\* handler then does what it does at any other place
InterruptedWrite(answer) ==
    /\ pc = "layer"
    /\ idx <= Len(items)
    /\ \E ph \in {Workload(choice)[phase]}, k \in {items[idx]} :
       \E res \in {LayerStep(ph.label, ph.direction, k, state, userRating, moods,
                             global_mean, start_char_floor,
                             calculate_dynamic_epsilon(Len(items)))} :
          /\ res.wrote
          /\ userRating' = res.rating
          /\ current_section' = first_char(ph.label, k)
          /\ IF answer = "q"
             THEN /\ disk' = save_state(disk, state)
                  /\ cancel' = [cancel EXCEPT !.reported = TRUE, !.opt = opt_map(ph),
                                              !.letter = restart_let(first_char(ph.label, k)),
                                              !.unrecorded = @ \cup {k}]
                  /\ pc' = "exited"
                  /\ UNCHANGED <<idx, batch_counter>>
             ELSE /\ batch_counter' = 0
                  /\ idx' = idx + 1
                  /\ cancel' = [cancel EXCEPT !.abandoned = @ \cup {k},
                                              !.unrecorded = @ \cup {k}]
                  /\ UNCHANGED <<disk, pc>>
          /\ last' = [op |-> "interrupt", pos |-> "write", answer |-> answer, key |-> k,
                      label |-> ph.label, direction |-> ph.direction,
                      first_char |-> first_char(ph.label, k)]
    /\ UNCHANGED <<config, lib, burst, moods, state, choice, start_char, phase, items,
                   global_mean, updated_count, skipped_count, hijacked_count,
                   total_updated, clusters, runs, externals, writes>>

NextPause ==
    \/ StartRun
    \/ EstablishPrior
    \/ BeginPass
    \/ ProcessLayerItem
    \/ \E pos \in Positions, answer \in {"r", "q"} : Interrupt(pos, answer)
    \/ \E answer \in {"r", "q"} : InterruptedWrite(answer)
    \/ EndPass
    \/ RunSummary
    \/ Restart

SpecPause == InitCancel /\ [][NextPause]_vars

----------------------------------------------------------------------------
(* Properties.                                                             *)

\* The item the next iteration of process_layer's loop handles, and whether
\* the loop is about to handle one (an item below the start letter is
\* passed over, not processed)
CurItem == items[idx]
CurPass == Workload(choice)[phase]
AtItem ==
    /\ pc = "layer"
    /\ idx <= Len(items)
    /\ first_char(CurPass.label, CurItem) >= start_char_floor

\* |a - b| on the rating scale
Dist(a, b) == RAbs(RSub(a, b))

HasStale(k) == k \in DOMAIN state /\ RLt(R(1, 100), Dist(state[k].r, userRating[k]))

(* C1: idempotence of the full sequence.  When option 0 has run to         *)
(* completion twice, live, with no rating changed by the user in between,  *)
(* the second run has issued no rating write and counted no update.        *)
C1_SecondRunWritesNothing ==
    (choice = 0 /\ runs = 2 /\ pc = "idle" /\ externals = 0 /\ ~config.DRY_RUN)
        => (writes = 0 /\ total_updated = 0)

(* C2: hijack handling in process_layer.  In a live pass, the iteration    *)
(* for an item whose StateRecord's rating differs from the observed rating *)
(* by more than 0.01 deletes that StateRecord (and no other), removes the  *)
(* provenance tag when one is configured, adds one to the hijack count,    *)
(* writes no rating and creates no StateRecord.                            *)
C2_HijackHandling ==
    [][ (AtItem /\ ~config.DRY_RUN /\ HasStale(CurItem))
        => /\ DOMAIN state' = DOMAIN state \ {CurItem}
           /\ \A k \in DOMAIN state' : state'[k] = state[k]
           /\ (config.INFERRED_TAG # "" => config.INFERRED_TAG \notin moods'[CurItem])
           /\ hijacked_count' = hijacked_count + 1
           /\ updated_count' = updated_count
           /\ userRating' = userRating
           /\ writes' = writes ]_vars

C2_Witness ==
    /\ last.op = "layer"
    /\ last.case = "hijack"
    /\ ~config.DRY_RUN
    /\ config.INFERRED_TAG # ""
    /\ last.key \notin DOMAIN state
    /\ hijacked_count = 1

(* C3: hijack handling is complete across a run.  Whenever a step of the   *)
(* engine deletes a StateRecord whose rating differed from the observed    *)
(* rating by more than 0.01, that step removes the item's provenance tag   *)
(* and counts the item as a hijack.                                        *)
C3_EveryStaleDeletionIsAHijack ==
    [][ \A k \in DOMAIN state \ DOMAIN state' :
            (HasStale(k) /\ ~config.DRY_RUN)
            => /\ (config.INFERRED_TAG # "" => config.INFERRED_TAG \notin moods'[k])
               /\ hijacked_count' = hijacked_count + 1 ]_vars

(* C4: manual-new is a no-op.  The iteration for an item with no           *)
(* StateRecord and an observed rating above 0 writes no rating, changes no *)
(* tag, creates no StateRecord and leaves the three counters alone.        *)
C4_ManualNewNoOp ==
    [][ (AtItem /\ CurItem \notin DOMAIN state /\ RLt(Zero, userRating[CurItem]))
        => /\ userRating' = userRating
           /\ moods' = moods
           /\ state' = state
           /\ writes' = writes
           /\ updated_count' = updated_count
           /\ skipped_count' = skipped_count
           /\ hijacked_count' = hijacked_count ]_vars

C4_Witness ==
    /\ last.op = "layer"
    /\ last.case = "manual"
    /\ last.key \notin DOMAIN state
    /\ RLt(Zero, userRating[last.key])

\* The inferred value of the item in progress, and the tolerance of the pass
CurInferred ==
    inferred_rating(CurPass.label, CurPass.direction, CurItem, state, userRating, global_mean)
CurEpsilon == calculate_dynamic_epsilon(Len(items))

\* The item in progress is neither a hijack nor manual-new
CurComputed ==
    /\ AtItem
    /\ ~HasStale(CurItem)
    /\ ~(CurItem \notin DOMAIN state /\ RLt(Zero, userRating[CurItem]))

NoRatedRelative ==
    IF CurPass.direction = "UP"
    THEN \A i \in DOMAIN ChildrenOf(CurItem) :
            ~(RLt(Zero, userRating[ChildrenOf(CurItem)[i]])
              /\ ChildrenOf(CurItem)[i] \notin DOMAIN state)
    ELSE ParentOf(CurItem) \notin Items \/ ~RLt(Zero, userRating[ParentOf(CurItem)])

(* C6: no-op without rated relatives.  The iteration for an item that has  *)
(* no rated relative (and is neither a hijack nor manual-new) writes no    *)
(* rating and leaves the StateStore as it is.                              *)
C6_NoRatedRelativeNoOp ==
    [][ (CurComputed /\ NoRatedRelative)
        => (userRating' = userRating /\ state' = state /\ writes' = writes) ]_vars

\* The confidence constant as the claim states it
ConfidenceOf(c) == IF RLe(c, Zero) THEN R(3, 1) ELSE c

\* The contributing children of the item of the last step, and their sum
LastContributing == contributing_children(last.key, state, userRating)
LastSum == RSum([i \in DOMAIN LastContributing |-> userRating[LastContributing[i]]])

LastUpComputed ==
    /\ last.op = "layer"
    /\ last.direction = "UP"
    /\ last.case \in {"noop", "drift", "update", "neither"}

(* C7: Bayesian blend exactness.  In an upward pass the inferred rating of *)
(* a group with no critic score is (C*p + sum) / (C + n): p the global     *)
(* prior, sum and n the sum and number of the contributing children's      *)
(* ratings, C the CONFIDENCE_C of the configuration, or 3.0 when that is   *)
(* not positive.                                                           *)
C7_BayesianBlend ==
    (LastUpComputed /\ CriticRating(last.key) = Zero)
        => /\ last.inferred.some
           /\ last.inferred.v =
                RDiv(RAdd(RMul(ConfidenceOf(config.CONFIDENCE_C), global_mean), LastSum),
                     RAdd(ConfidenceOf(config.CONFIDENCE_C), R(Len(LastContributing), 1)))

\* Children 6.0 and 8.0, C = 3.0, prior 6.0: the inferred rating is 6.4
C7_Witness ==
    /\ LastUpComputed
    /\ CriticRating(last.key) = Zero
    /\ global_mean = R(6, 1)
    /\ c_val = R(3, 1)
    /\ Len(LastContributing) = 2
    /\ LastSum = R(14, 1)
    /\ last.inferred = Some(R(64, 10))

\* The critic score biased and normalised onto the 0-10 scale
NormalisedCritic(k) ==
    RMul(RDiv(RAdd(CriticRating(k), config.BIAS_CRITIC), RAdd(R(10, 1), config.BIAS_CRITIC)),
         R(10, 1))

(* C8: informed prior with a critic score.  In an upward pass, for a group *)
(* with a critic score above 0 and WEIGHT_CRITIC above 0, the inferred     *)
(* rating is the blend taken with the informed prior                       *)
(* (prior*WEIGHT_GLOBAL + c*WEIGHT_CRITIC) / (WEIGHT_GLOBAL + WEIGHT_CRITIC), *)
(* c the biased, normalised critic score.                                  *)
C8_InformedPrior ==
    (LastUpComputed /\ RLt(Zero, CriticRating(last.key)) /\ RLt(Zero, config.WEIGHT_CRITIC))
        => LET p_i == RDiv(RAdd(RMul(global_mean, config.WEIGHT_GLOBAL),
                                RMul(NormalisedCritic(last.key), config.WEIGHT_CRITIC)),
                           RAdd(config.WEIGHT_GLOBAL, config.WEIGHT_CRITIC))
           IN  /\ last.inferred.some
               /\ last.inferred.v =
                    RDiv(RAdd(RMul(ConfidenceOf(config.CONFIDENCE_C), p_i), LastSum),
                         RAdd(ConfidenceOf(config.CONFIDENCE_C), R(Len(LastContributing), 1)))

LastDownComputed ==
    /\ last.op = "layer"
    /\ last.direction = "DOWN"
    /\ last.case \in {"noop", "drift", "update", "neither"}

\* The gravity the claim names for a label
GravityOf(label) ==
    IF label = "Album" THEN config.ALBUM_INHERITANCE_GRAVITY
    ELSE config.TRACK_INHERITANCE_GRAVITY

(* C9: downward inheritance.  In a downward pass, for a child whose parent *)
(* has an observed rating above 0, the inferred rating is                  *)
(* parent*(1 - gravity) + prior*gravity when the parent has no StateRecord *)
(* and exactly the parent's rating when it has one; gravity is the album   *)
(* gravity for albums and the track gravity for tracks.                    *)
C9_DownwardInheritance ==
    (LastDownComputed /\ RLt(Zero, userRating[ParentOf(last.key)]))
        => /\ last.inferred.some
           /\ last.inferred.v =
                IF ParentOf(last.key) \in DOMAIN state
                THEN userRating[ParentOf(last.key)]
                ELSE RAdd(RMul(userRating[ParentOf(last.key)],
                               RSub(R(1, 1), GravityOf(last.label))),
                          RMul(global_mean, GravityOf(last.label)))

\* Manual parent 8.0, gravity 0.2, prior 6.0: the inferred rating is 7.6;
\* and a track has inherited with the track gravity
C9_Witness ==
    /\ LastDownComputed
    /\ last.label = "Album"
    /\ userRating[ParentOf(last.key)] = R(8, 1)
    /\ ParentOf(last.key) \notin DOMAIN state
    /\ global_mean = R(6, 1)
    /\ last.inferred = Some(R(76, 10))
    /\ userRating[last.key] = R(76, 10)

\* The children of the item in progress that have a StateRecord
CurInferredChildren ==
    {ChildrenOf(CurItem)[i] : i \in DOMAIN ChildrenOf(CurItem)} \cap DOMAIN state

\* The ratings a child may be given in the second catalog
AltRatings == {Zero, R(2, 1), R(10, 1)}

(* C10: no feedback from inferred children.  In an upward pass, two        *)
(* catalogs that differ only in the observed ratings of children that have *)
(* a StateRecord give the group the same inferred value.                   *)
C10_NoFeedback ==
    (AtItem /\ CurPass.direction = "UP")
        => \A f \in [CurInferredChildren -> AltRatings] :
              LET other == [k \in Items |-> IF k \in CurInferredChildren THEN f[k]
                                            ELSE userRating[k]]
              IN  up_inferred(CurItem, state, other, global_mean)
                    = up_inferred(CurItem, state, userRating, global_mean)

\* An upward step has computed a value for a group that has a rated child
\* with a StateRecord
C10_Witness ==
    /\ LastUpComputed
    /\ \E i \in DOMAIN ChildrenOf(last.key) :
          /\ ChildrenOf(last.key)[i] \in DOMAIN state
          /\ RLt(Zero, userRating[ChildrenOf(last.key)[i]])
    /\ Len(LastContributing) >= 1

\* The leaf items of the library, and the mean of the observed ratings of a
\* set of them
LeafItems == {TrackOrder[i] : i \in DOMAIN TrackOrder}
MeanOf(S) ==
    LET seq == SelectKeys(TrackOrder, S)
    IN  RDiv(RSum([i \in DOMAIN seq |-> userRating[seq[i]]]), R(Len(seq), 1))

\* The leaf items with an observed rating above 0 that have no StateRecord,
\* or one that differs from the observed rating by more than 0.01
ManualLeaves ==
    { t \in LeafItems :
        /\ RLt(Zero, userRating[t])
        /\ (t \notin DOMAIN state \/ RLt(R(1, 100), Dist(state[t].r, userRating[t]))) }

\* The leaf items UPWARD_EXCLUSION_RULES keep out of averages: shorter than
\* MIN_DURATION_SEC, or a keyword in the title
ExcludedLeaves ==
    { t \in LeafItems :
        /\ config.UPWARD_ENABLED
        /\ \/ lib.duration[t] > 0 /\ lib.duration[t] \div 1000 < config.MIN_DURATION_SEC
           \/ lib.title[t] \cap config.KEYWORDS # {} }

\* What a call of get_library_prior that counts the leaf items M must leave in
\* the StateStore: the records of M gone, every other record as it was
StateWithout(M) == [k \in DOMAIN state \ M |-> state[k]]

\* What "Establish Prior" must return when it counts the leaf items M
PriorOver(M) ==
    /\ last'.n = Cardinality(M)
    /\ global_mean' = IF M = {} THEN R(6, 1) ELSE MeanOf(M)

(* C11 as stated: get_library_prior counts every manual leaf item with an  *)
(* observed rating above 0, returns their number and their mean (6.0 when  *)
(* there is none), deletes their stale StateRecords and changes no other.  *)
C11_PriorOverAllManual ==
    [][ /\ pc = "prior" => PriorOver(ManualLeaves)
        /\ pc \in {"prior", "final_prior"} => state' = StateWithout(ManualLeaves) ]_vars

(* C11, amended: the same of the manual leaf items that the upward         *)
(* exclusion rules do not exclude; an excluded item is not counted and its *)
(* StateRecord, stale or not, is kept.                                     *)
C11_PriorOverCountedManual ==
    [][ /\ pc = "prior" => PriorOver(ManualLeaves \ ExcludedLeaves)
        /\ pc \in {"prior", "final_prior"}
              => state' = StateWithout(ManualLeaves \ ExcludedLeaves) ]_vars

\* "Establish Prior" has counted a manual rating and deleted a stale record
\* while an excluded track carried a manual rating
C11_Witness ==
    /\ last.op = "prior"
    /\ last.n >= 1
    /\ last.deleted # {}
    /\ \E t \in ExcludedLeaves : RLt(Zero, userRating[t]) /\ t \notin DOMAIN state

\* get_library_prior called now
FirstCall == get_library_prior(state, userRating)

(* C12: prior estimation is idempotent.  Whatever the StateStore and the   *)
(* catalog, a second call of get_library_prior right after the first       *)
(* returns the same prior and the same manual count, and leaves the        *)
(* StateStore the first call left.                                         *)
C12_PriorIdempotent ==
    \E c1 \in {FirstCall} :
       \E c2 \in {get_library_prior(c1.state, userRating)} :
          /\ c2.prior = c1.prior
          /\ c2.n = c1.n
          /\ c2.state = c1.state

\* A first call is about to delete a stale record of a track it counts, next
\* to a track whose record matches and is not counted
C12_Witness ==
    /\ pc = "prior"
    /\ \E t \in ManualLeaves \ ExcludedLeaves : t \in DOMAIN state
    /\ \E t \in LeafItems \ ManualLeaves : t \in DOMAIN state /\ RLt(Zero, userRating[t])
    /\ FirstCall.n >= 1
    /\ FirstCall.state # state

\* The cluster the next iteration of process_twins' loop handles: its
\* members, its manual anchors (the members without a StateRecord), and the
\* target the claim gives it
AtCluster == pc = "twins" /\ idx <= Len(clusters)
CurMembers == {clusters[idx][i].ratingKey : i \in DOMAIN clusters[idx]}
CurAnchors == CurMembers \ DOMAIN state
CurTarget == IF CurAnchors # {} THEN MeanOf(CurAnchors) ELSE MeanOf(CurMembers)
CurTwinEpsilon == calculate_dynamic_epsilon(Cardinality(LeafItems))

\* The members the target rewrites: not an anchor, further than epsilon
\* from the target
CurRewritten ==
    {k \in CurMembers \ CurAnchors : RLt(CurTwinEpsilon, Dist(userRating[k], CurTarget))}

(* C13: twin consensus target.  In a live run, the target of a cluster is  *)
(* the mean of its manual members' observed ratings when it has any, else  *)
(* the mean of all members' ratings; no rating write is issued for a       *)
(* manual anchor, and every other member further than epsilon from the     *)
(* target is rewritten to the target (nothing else is written).            *)
C13_TwinConsensus ==
    [][ (AtCluster /\ ~config.DRY_RUN)
          => /\ last'.target.target_rating = CurTarget
             /\ \A k \in CurRewritten : userRating'[k] = CurTarget
             /\ \A k \in Items \ CurRewritten : userRating'[k] = userRating[k]
             /\ writes' = writes + Cardinality(CurRewritten) ]_vars

\* The example of the spec: a cluster of a manual anchor at 7.0 and two
\* inferred members at 5.0 and 9.0 has been processed, and all three are
\* now at 7.0
C13_Witness ==
    /\ last.op = "twins"
    /\ ~config.DRY_RUN
    /\ Len(last.cluster) = 3
    /\ \E a, b, c \in DOMAIN last.cluster :
          /\ last.cluster[a].is_manual /\ last.cluster[a].rating = R(7, 1)
          /\ ~last.cluster[b].is_manual /\ last.cluster[b].rating = R(5, 1)
          /\ ~last.cluster[c].is_manual /\ last.cluster[c].rating = R(9, 1)
    /\ last.target.target_rating = R(7, 1)
    /\ \A i \in DOMAIN last.cluster : userRating[last.cluster[i].ratingKey] = R(7, 1)
    /\ writes = 2

\* The provenance type of the cluster in progress: 2 with a manual anchor,
\* 1 without
CurTwinType == IF CurAnchors # {} THEN 2 ELSE 1

(* C14: twin StateRecords only for non-anchor members.  In a live run,     *)
(* processing a cluster leaves every member that was not a manual anchor   *)
(* with a StateRecord of the cluster's provenance type, and creates no     *)
(* StateRecord for a manual anchor.                                        *)
C14_NoRecordForAnchors ==
    [][ (AtCluster /\ ~config.DRY_RUN)
          => /\ \A k \in CurMembers \ CurAnchors :
                   k \in DOMAIN state' /\ state'[k].t = CurTwinType
             /\ \A k \in CurAnchors : k \notin DOMAIN state' ]_vars

\* The rated tracks build_twin_clusters groups under a key, and the keys
RatedLeaves == {t \in LeafItems : RLt(Zero, userRating[t])}
GroupOf(key) == {t \in RatedLeaves : twin_key(t) = key}

\* A track's duration in whole seconds
Seconds(t) == lib.duration[t] \div 1000

\* Twice the median of the durations of a set of tracks: of the middle
\* track, or of the two middle tracks, when the tracks are ranked by their
\* duration (ties by name)
TrackIndex(t) == CHOOSE i \in DOMAIN TrackOrder : TrackOrder[i] = t
Before(u, t) ==
    \/ Seconds(u) < Seconds(t)
    \/ Seconds(u) = Seconds(t) /\ TrackIndex(u) < TrackIndex(t)
Rank(t, S) == Cardinality({u \in S : Before(u, t)}) + 1
TwiceMedian(S) ==
    LET n == Cardinality(S)
        lo == CHOOSE t \in S : Rank(t, S) = (n + 1) \div 2
        hi == CHOOSE t \in S : Rank(t, S) = n \div 2 + 1
    IN  Seconds(lo) + Seconds(hi)

\* The members of a cluster
MembersOf(cluster) == {cluster[i].ratingKey : i \in DOMAIN cluster}

(* C15: twin cluster construction.  Every cluster build_twin_clusters      *)
(* returns has at least 2 members, its members share one normalized        *)
(* (artist, title) key, every member's duration is within                  *)
(* DURATION_TOLERANCE_SEC of the median duration of the tracks grouped     *)
(* under that key, and no track is a member of two clusters.               *)
C15_ClusterConstruction ==
    [][ pc = "twins_build"
          => /\ \A c \in DOMAIN clusters' :
                   /\ Len(clusters'[c]) >= 2
                   /\ Cardinality(MembersOf(clusters'[c])) = Len(clusters'[c])
                   /\ MembersOf(clusters'[c]) \subseteq RatedLeaves
                   /\ \E t \in MembersOf(clusters'[c]) :
                         /\ MembersOf(clusters'[c]) \subseteq GroupOf(twin_key(t))
                         /\ \A m \in MembersOf(clusters'[c]) :
                               IAbs(2 * Seconds(m) - TwiceMedian(GroupOf(twin_key(t))))
                                  <= 2 * config.DURATION_TOLERANCE_SEC
             /\ \A c, d \in DOMAIN clusters' :
                   c # d => MembersOf(clusters'[c]) \cap MembersOf(clusters'[d]) = {} ]_vars

\* build_twin_clusters has returned a cluster from which the duration
\* filter removed a track of the group
C15_Witness ==
    /\ last.op = "twins_build"
    /\ Len(clusters) = 1
    /\ \E t \in RatedLeaves \ MembersOf(clusters[1]) :
          /\ twin_key(t) = twin_key(clusters[1][1].ratingKey)
          /\ Seconds(t) > 0
          /\ ~lib.live[ParentOf(t)]

\* The groups of the registry that reach the live-member rule: at least two
\* rated tracks under one key, every one with a duration, and at least two
\* of them within the tolerance of the median
Groups ==
    { GroupOf(twin_key(t)) :
        t \in {u \in RatedLeaves : clean_artist(u) # "" /\ clean_title(u) # {}} }
DurationFiltered(G) ==
    {m \in G : IAbs(2 * Seconds(m) - TwiceMedian(G)) <= 2 * config.DURATION_TOLERANCE_SEC}
FilteredGroups ==
    { G \in Groups : /\ \A m \in G : Seconds(m) > 0
                     /\ Cardinality(DurationFiltered(G)) >= 2 }
NonLive(G) == {m \in DurationFiltered(G) : ~lib.live[ParentOf(m)]}

\* The member sets of the clusters build_twin_clusters returns in this step
Returned == {MembersOf(clusters'[c]) : c \in DOMAIN clusters'}

(* C16 as stated: with EXCLUDE_LIVE_ALBUMS, the live members of a          *)
(* duration-filtered cluster are dropped only if at least 2 members        *)
(* remain; otherwise they are kept and the cluster survives with its       *)
(* duration-filtered members.                                              *)
C16_LiveDroppedOnlyIfTwoRemain ==
    [][ (pc = "twins_build" /\ config.TWIN_ENABLED /\ config.EXCLUDE_LIVE_ALBUMS)
          => \A G \in FilteredGroups :
                IF Cardinality(NonLive(G)) >= 2 THEN NonLive(G) \in Returned
                ELSE DurationFiltered(G) \in Returned ]_vars

(* C16, amended: with EXCLUDE_LIVE_ALBUMS, the live members of a           *)
(* duration-filtered cluster of at least 2 members are always dropped;     *)
(* the cluster is returned with its remaining members when at least 2      *)
(* remain, and is discarded when fewer than 2 remain.                      *)
C16_LiveAlwaysDropped ==
    [][ (pc = "twins_build" /\ config.TWIN_ENABLED /\ config.EXCLUDE_LIVE_ALBUMS)
          => \A G \in FilteredGroups :
                IF Cardinality(NonLive(G)) >= 2 THEN NonLive(G) \in Returned
                ELSE \A M \in Returned : M \cap G = {} ]_vars

\* build_twin_clusters has discarded a cluster of two tracks of close
\* duration because one of them is on a live album
C16_Witness ==
    /\ last.op = "twins_build"
    /\ config.EXCLUDE_LIVE_ALBUMS
    /\ clusters = << >>
    /\ \E a, b \in RatedLeaves :
          /\ a # b
          /\ twin_key(a) = twin_key(b)
          /\ GroupOf(twin_key(a)) = {a, b}
          /\ Seconds(a) > 0 /\ Seconds(b) > 0
          /\ IAbs(Seconds(a) - Seconds(b)) <= 2 * config.DURATION_TOLERANCE_SEC
          /\ ~lib.live[ParentOf(a)] /\ lib.live[ParentOf(b)]

(* C17: DRY_RUN suppresses every write.  With DRY_RUN enabled, no step of  *)
(* any operation (the passes of process_layer, process_twins, run_cleanup, *)
(* run_tag_sync, run_reconstruction, run_bulk_import) changes a rating, a  *)
(* mood or an album's year on the server, and none writes the state file.  *)
C17_DryRunWritesNothing ==
    [][ config.DRY_RUN => /\ userRating' = userRating
                          /\ moods' = moods
                          /\ lib' = lib
                          /\ disk' = disk ]_vars

\* In a dry run, process_layer has counted an update that filled the burst
\* and called save_state, after an admin tool or an import that found
\* something to change
C17_Witness ==
    /\ config.DRY_RUN
    /\ last.op = "layer"
    /\ last.case = "update"
    /\ last.cooldown
    /\ runs = 2
    /\ \/ restored_items(state, userRating, moods) # {}
       \/ \E k \in LibItems : tag_sync_counts(moods, k, state)

\* The operator quits the pass in this step
Quits == pc = "layer" /\ pc' = "exited"

\* The option number of the pass in progress
CurOption ==
    CHOOSE n \in 1 .. 4 : Phases[n] = [label |-> CurPass.label, direction |-> CurPass.direction]

\* What every quit does: nothing of the catalog or of the StateStore is
\* touched, the StateStore goes to the state file (in a dry run save_state
\* writes nothing), the checkpoint names the pass, and once the program has
\* exited the only step left is a new start
StopsAndSaves ==
    /\ Quits => /\ userRating' = userRating /\ moods' = moods /\ state' = state
                /\ cancel'.processed = cancel.processed
                /\ disk' = (IF config.DRY_RUN THEN disk
                            ELSE Versioned(lib.uuid, APP_VERSION, state))
                /\ cancel'.reported
                /\ cancel'.opt = CurOption
    /\ pc = "exited" => last'.op = "restart"

(* C18 as stated: when the operator quits an interrupted pass, no further  *)
(* item is processed, the StateStore is saved before the exit, and the     *)
(* checkpoint names the pass and the sort bucket of the item that was in   *)
(* progress.                                                               *)
C18_CheckpointOfItemInProgress ==
    [][ /\ StopsAndSaves
        /\ Quits => cancel'.letter = first_char(CurPass.label, CurItem) ]_vars

\* The bucket the pass has entered last (0: none yet), before this step
EnteredBucket == current_section

(* C18, amended: the same, but the checkpoint names the sort bucket the    *)
(* pass entered last: the bucket of the item in progress when the          *)
(* interrupt came after that item entered its bucket, else the bucket      *)
(* entered by an earlier item; when no item has entered a bucket yet, the  *)
(* start letter, or "A" without one.                                       *)
C18_GracefulCancellation ==
    [][ /\ StopsAndSaves
        /\ Quits => cancel'.letter =
                      (IF last'.pos = "late" THEN first_char(CurPass.label, CurItem)
                       ELSE IF EnteredBucket # 0 THEN EnteredBucket
                       ELSE IF phase = 1 /\ start_char # 0 THEN start_char
                       ELSE 1) ]_vars

\* The operator has quit a live pass at an interrupt that came before the
\* item in progress entered its bucket: the checkpoint names an earlier
\* bucket, and the state file holds the records written so far
C18_Witness ==
    /\ pc = "exited"
    /\ ~config.DRY_RUN
    /\ last.op = "interrupt" /\ last.answer = "q" /\ last.pos = "early"
    /\ cancel.letter # last.first_char
    /\ state # << >>
    /\ disk = Versioned(lib.uuid, APP_VERSION, state)

(* C19: checkpoint resume skips only completed work.  When a cancelled     *)
(* pass is run again with the option and the start letter of its           *)
(* checkpoint, every item the resumed run passes over (first letter of its *)
(* sort name below the start letter) was processed by the cancelled run,   *)
(* unless the cancelled run was itself told to pass it over.               *)
C19_ResumeSkipsOnlyCompleted ==
    (cancel.resumed /\ pc = "layer")
        => \A i \in DOMAIN items :
              (/\ first_char(CurPass.label, items[i]) < start_char
               /\ first_char(CurPass.label, items[i]) >= cancel.start)
                 => items[i] \in cancel.before

(* C20: backpressure bound.  In a live run of process_layer or of          *)
(* process_twins, the rating writes issued since the last cool-down pause  *)
(* (or since the start of the pass) never exceed COOLDOWN_BATCH, and the   *)
(* state file holds the StateStore when a pause begins.                    *)
C20_BurstBound ==
    (last.op \in {"layer", "twins"} /\ ~config.DRY_RUN)
        => /\ last.burst <= config.COOLDOWN_BATCH
           /\ last.cooldown => disk = Versioned(lib.uuid, APP_VERSION, state)

----------------------------------------------------------------------------
(* Remote failures.                                                        *)

\* C21: when a single remote call made for one item of a process_layer pass
\* fails (the children or the parent fetched, the rating written, the tag
\* added or removed), the failure is caught and the pass goes on with the
\* item that follows, so that it still reaches its final save.
C21_FailureIsolated ==
    [][last'.op = "failure" => pc' = "layer" /\ idx' = idx + 1]_vars

\* The pass that was stopped has been run again, to its end
RerunComplete ==
    /\ cancel.expected.stopped
    /\ cancel.expected.clean
    /\ cancel.resumed
    /\ last.op = "endpass"

\* C22: when a pass that is not a dry run stops at any point (a crash, an
\* uncaught failure) and is run again to its end from the persisted state,
\* the ratings of the catalog and the StateStore are those that the pass
\* would have left had it not stopped; no rating the engine wrote is left
\* without its StateRecord, to be taken for a manual one.
C22_PartialCompletionSafe ==
    (RerunComplete /\ ~config.DRY_RUN) =>
        /\ userRating = cancel.expected.rating
        /\ state = cancel.expected.state
        /\ \A k \in DOMAIN cancel.expected.state : k \in DOMAIN state

----------------------------------------------------------------------------
(* The state file.                                                         *)

\* The program found a flat legacy file, and option 5, which had no cluster
\* to work on, has saved the StateStore as load_state left it
SavedAfterFlat ==
    /\ pc = "idle"
    /\ last.op = "done"
    /\ choice = 5
    /\ clusters = << >>
    /\ ~config.DRY_RUN
    /\ cancel.file.exists
    /\ ~cancel.file.versioned

\* C23: a flat legacy map of keys to numbers, loaded (the operator accepts
\* the upgrade) and saved in a run that is not a dry run, gives the
\* versioned document with the identity of the connected library, whose
\* ratings have exactly the keys of the map, each with {r: its number, t: 0}.
C23_FlatLegacyMigration ==
    SavedAfterFlat =>
        disk = [exists |-> TRUE, versioned |-> TRUE, version |-> "1.4.0",
                library_uuid |-> lib.uuid,
                ratings |-> [k \in DOMAIN cancel.file.ratings |->
                               [r |-> cancel.file.ratings[k].num, t |-> 0]]]

C23_Witness ==
    /\ SavedAfterFlat
    /\ DOMAIN cancel.file.ratings = {"A1", "T2"}
    /\ last.total_updated = 0

\* C24: records of the shape {r: value}, without a type, are loaded and
\* then saved as typed records {r: value, t: 0}: once load_state has
\* returned every record of the StateStore has an r and a t, and so has
\* every record of the document the next save writes.
C24_UntypedMigration ==
    /\ (last.op = "load" /\ ~last.exited) =>
           \A k \in DOMAIN state : DOMAIN state[k] = {"r", "t"}
    /\ (pc = "idle" /\ last.op = "done" /\ choice = 5 /\ ~config.DRY_RUN) =>
           \A k \in DOMAIN disk.ratings : DOMAIN disk.ratings[k] = {"r", "t"}

\* load_state has merged records of the state file into the StateStore
Merged == state' # state

\* C25: when the state file carries an identity that is not the identity of
\* the connected library, load_state merges none of its records unless the
\* operator confirms; and when the program was started with a numeric
\* option on the command line it fails closed: it ends without a prompt and
\* without running a pass.
C25_IdentityGuard ==
    [][(last'.op = "load" /\ last'.mismatch) =>
           /\ Merged => ("uuid" \in last'.asked /\ last'.confirm_uuid = "y")
           /\ last'.automation => (last'.asked = {} /\ pc' = "exited" /\ ~Merged)]_vars

----------------------------------------------------------------------------
(* Dynamic epsilon.                                                        *)

----------------------------------------------------------------------------
(* Manual ratings over sequences of passes.                                *)

\* C27: whatever passes are run one after the other (the prior, the layer
\* passes, the twin pass, none of them a dry run) and whatever the
\* StateStore was at the start, an item that had a rating above 0 and no
\* StateRecord at the start has exactly that rating at the end, when nobody
\* else has changed it.
C27_ManualRatingsSurvive ==
    ~config.DRY_RUN =>
        \A k \in DOMAIN cancel.origin : userRating[k] = cancel.origin[k]

----------------------------------------------------------------------------
(* The StateStore and the catalog after a pass.                            *)

\* C28: after a complete pass of process_layer or process_twins that is not
\* a dry run, with no failure and no change by anybody else, every
\* StateRecord the pass has created or updated holds a rating within 0.01
\* of the rating the item carries, so that the next prior estimation or
\* pass does not take the item for a hijack.  (The records of a layer pass
\* are those of the items it has processed, the records of a twin pass
\* those of type 1 or 2.)
C28_RecordMatchesCatalog ==
    ~config.DRY_RUN =>
        /\ last.op = "endpass" =>
              \A k \in cancel.processed \cap DOMAIN state :
                 RLe(Dist(state[k].r, userRating[k]), R(1, 100))
        /\ last.op = "endtwins" =>
              \A k \in DOMAIN state :
                 state[k].t \in {1, 2} => RLe(Dist(state[k].r, userRating[k]), R(1, 100))

----------------------------------------------------------------------------
(* Cleanup.                                                                *)

\* C29: run_cleanup, not in a dry run and with no remote failure, clears the
\* rating and deletes the StateRecord of every item whose typed StateRecord
\* was within 0.02 of the rating the item carried, and leaves in place every
\* StateRecord whose item's rating was 0.02 or more away.
C29_CleanupUndoes ==
    [][(last'.op = "cleanup" /\ ~config.DRY_RUN) =>
          \A k \in DOMAIN state :
             IF RLt(Dist(userRating[k], state[k].r), R(2, 100))
             THEN userRating'[k] = Zero /\ k \notin DOMAIN state'
             ELSE k \in DOMAIN state' /\ state'[k] = state[k]]_vars

----------------------------------------------------------------------------
(* Pause and resume.                                                       *)

\* C30: when an interrupt arrives at any point while process_layer handles
\* an item (between the rating write and the StateRecord update included)
\* and the operator chooses to resume, the item has still been fully
\* classified by the end of the pass, and no item is left whose rating the
\* pass has written and which has no StateRecord.
C30_ResumeLosesNoItem ==
    last.op = "endpass" =>
        /\ \A k \in cancel.abandoned :
              first_char(last.label, k) >= start_char_floor => k \in cancel.processed
        /\ \A k \in cancel.unrecorded : k \in DOMAIN state

====
